---- MODULE Spec2Model ----
(***************************************************************************)
(* Outbound lead-qualification bot: OutboundBot.process_message and the    *)
(* ConversationState it loads, mutates and stores every turn.              *)
(*                                                                         *)
(* One turn = one call of process_message on the stored conversation_data. *)
(* The user message is one of a fixed list of concrete utterances whose    *)
(* keyword features are evaluated as the code's predicates evaluate them;  *)
(* the results of the LLM collaborators (type detector, flow detector,     *)
(* field extractor, question-intent detector), the retriever and the       *)
(* final response call are nondeterministic inputs of the turn.            *)
(***************************************************************************)
EXTENDS Naturals, Sequences, FiniteSets, TLC

VARIABLES
    state,      \* conversation["data"]: the stored ConversationState
    history,    \* conversation["messages"]: what later turns read of it
    result,     \* outcome of the last process_message call
    script,     \* position in the scripted conversation (0: free conversation)
    inflight    \* the requests being served: what each loaded and what it stored

vars == <<state, history, result, script, inflight>>

(***************************************************************************)
(* Bounds of the model (not program constants).                            *)
(***************************************************************************)
\* contact_refusal_count stops growing at this value
MaxRefusals == 1
\* rag_questions_count stops growing at this value
MaxRagCount == 1
\* brief_response_count stops growing at this value (3 is the "low" threshold)
MaxBrief == 3
\* number of requests that can be in flight on the conversation at once
MaxInFlight == 2
\* asks of one field that are counted apart (the code compares the count with MAX_ASKS only)
MaxAskCount == 2
\* largest skipped_preferred_count a stored conversation is loaded with
MaxSkipped == 2

(***************************************************************************)
(* Values                                                                  *)
(***************************************************************************)
NoneV == "None"
TO_BE_DISCUSSED == "to_be_discussed_with_team"
USER_DECLINED == "user_declined"

IntentStages == <<"exploring", "interest_detected", "intent_confirmed", "qualifying", "qualified">>

StageRank(stage) == CHOOSE i \in 1..Len(IntentStages) : IntentStages[i] = stage

NewCafePreferred == <<"timeline", "coffee_style", "equipment", "volume">>
ExistingCafePreferred == <<"current_pain_points", "cafe_count", "support_needs", "current_coffee_style", "coffee_preference">>
ContactFields == {"name", "phone", "email"}

SeqToSet(q) == {q[i] : i \in 1..Len(q)}

QualFields == SeqToSet(NewCafePreferred) \cup SeqToSet(ExistingCafePreferred) \cup ContactFields

\* Concrete values the collaborators can produce.
PHONE_A == "+15551234567"
PHONE_B == "+15559876543"
PHONE_RAW10 == "5551234567"
PHONE_RAW10_B == "5559876543"
PHONE_SHORT == "636737"
\* ten digits given as a UK number, which they are not; with "+1"; with "+44"
PHONE_RAW10_UK == "5550001111"
PHONE_UK_AS_US == "+15550001111"
PHONE_UK_REVIEW == "+445550001111"
EMAIL_A == "sam@gmail.com"
EMAIL_B == "sam@cafe.example"
EMAIL_INVALID == "sam@gmail.invalid"
\* one letter away from a known provider; its domain does not resolve
EMAIL_TYPO == "sam@gmaill.com"
NAME_A == "Sam"
NAME_SHORT == "S"
PREF_WORD_PHONE == "phone"
PREF_WORD_EMAIL == "email"

\* Python truthiness of an Optional[str] field
Truthy(v) == v # NoneV /\ v # ""

(***************************************************************************)
(* ConversationState                                                       *)
(***************************************************************************)
StateFields ==
    [ customer_type |-> NoneV,
      intent_stage |-> "exploring",
      is_qualified |-> FALSE,
      rag_questions_count |-> 0,
      pending_phone |-> NoneV,
      pending_phone_confirmation |-> NoneV,
      current_field_being_asked |-> NoneV,
      current_field_ask_count |-> 0,
      skipped_preferred_count |-> 0,
      phone_validation_attempts |-> 0,
      phone_needs_manual_review |-> FALSE,
      email_validation_attempts |-> 0,
      email_typo_suggested |-> NoneV,
      email_preference_indicated |-> FALSE,
      phone_preference_indicated |-> FALSE,
      contact_refusal_count |-> 0,
      last_refused_field |-> NoneV,
      refusal_timestamps |-> 0,
      human_connection_confirmed |-> FALSE,
      human_connection_flow_stage |-> NoneV,
      user_engagement_level |-> "high",
      brief_response_count |-> 0,
      timeline |-> NoneV,
      coffee_style |-> NoneV,
      equipment |-> NoneV,
      volume |-> NoneV,
      current_pain_points |-> NoneV,
      cafe_count |-> NoneV,
      support_needs |-> NoneV,
      current_coffee_style |-> NoneV,
      coffee_preference |-> NoneV,
      name |-> NoneV,
      phone |-> NoneV,
      email |-> NoneV,
      wants_to_place_order |-> FALSE ]

(***************************************************************************)
(* FieldManagerMixin                                                       *)
(***************************************************************************)
get_field(s, f) == s[f]

set_field(s, f, v) == [s EXCEPT ![f] = v]

get_required_fields(customer_type) ==
    IF customer_type \in {"new_cafe", "existing_cafe"} THEN <<"name">> ELSE <<>>

get_preferred_fields(customer_type) ==
    IF customer_type = "new_cafe" THEN NewCafePreferred
    ELSE IF customer_type = "existing_cafe" THEN ExistingCafePreferred
    ELSE <<>>

is_complete(s) ==
    Truthy(s.name) /\ (Truthy(s.phone) \/ Truthy(s.email))

\* the preferred fields of the type that are still unset, in declared order
MissingPreferred(s, customer_type) ==
    SelectSeq(get_preferred_fields(customer_type), LAMBDA f : ~Truthy(s[f]))

MAX_PREFERRED_SKIPS == 2

\* get_missing_fields mutates the state when the bulk-skip rule fires:
\* StateAfterMissing is the state it leaves, get_missing_fields the list.
RECURSIVE MarkAll(_, _)
MarkAll(s, fs) ==
    IF fs = <<>> THEN s
    ELSE MarkAll(set_field(s, Head(fs), TO_BE_DISCUSSED), Tail(fs))

\* a query that would leave the unset preferred fields as they are (C23 excludes it)
StateAfterMissingUnmarked(s, customer_type) == s

StateAfterMissing(s, customer_type) ==
    IF s.skipped_preferred_count >= MAX_PREFERRED_SKIPS
    THEN MarkAll(s, MissingPreferred(s, customer_type))
    ELSE s

\* a list that would put the contact fields before the preferred ones (C24 excludes it)
get_missing_fields_contact_first(s, customer_type) ==
    LET name_missing == IF Truthy(s.name) THEN <<>> ELSE <<"name">>
        phone_missing == IF Truthy(s.phone) THEN <<>> ELSE <<"phone">>
        email_missing == IF Truthy(s.email) THEN <<>> ELSE <<"email">>
    IN  IF s.skipped_preferred_count >= MAX_PREFERRED_SKIPS
        THEN name_missing \o phone_missing \o email_missing
        ELSE name_missing \o phone_missing \o email_missing \o MissingPreferred(s, customer_type)

get_missing_fields(s, customer_type) ==
    LET name_missing == IF Truthy(s.name) THEN <<>> ELSE <<"name">>
        phone_missing == IF Truthy(s.phone) THEN <<>> ELSE <<"phone">>
        email_missing == IF Truthy(s.email) THEN <<>> ELSE <<"email">>
    IN  IF s.skipped_preferred_count >= MAX_PREFERRED_SKIPS
        THEN name_missing \o phone_missing \o email_missing
        ELSE name_missing \o MissingPreferred(s, customer_type) \o phone_missing \o email_missing

(***************************************************************************)
(* TrackingMixin                                                           *)
(***************************************************************************)
increment_rag_count(s) ==
    [s EXCEPT !.rag_questions_count =
        IF s.rag_questions_count < MaxRagCount THEN s.rag_questions_count + 1 ELSE MaxRagCount]

reset_rag_count(s) == [s EXCEPT !.rag_questions_count = 0]

track_contact_refusal(s, field) ==
    LET n == IF s.contact_refusal_count < MaxRefusals THEN s.contact_refusal_count + 1 ELSE MaxRefusals
    IN  [s EXCEPT !.contact_refusal_count = n,
                  !.last_refused_field = field,
                  !.refusal_timestamps = n]

track_user_engagement(s, brief) ==
    LET c == IF brief THEN s.brief_response_count + 1
             ELSE IF s.brief_response_count > 0 THEN s.brief_response_count - 1 ELSE 0
        capped == IF c > MaxBrief THEN MaxBrief ELSE c
        lvl == IF c >= 3 THEN "low" ELSE IF c >= 2 THEN "medium" ELSE "high"
    IN  [s EXCEPT !.brief_response_count = capped, !.user_engagement_level = lvl]

increment_phone_attempts(s) == [s EXCEPT !.phone_validation_attempts = s.phone_validation_attempts + 1]

reset_phone_attempts(s) == [s EXCEPT !.phone_validation_attempts = 0]

flag_phone_for_review(s) == [s EXCEPT !.phone_needs_manual_review = TRUE]

increment_email_attempts(s) == [s EXCEPT !.email_validation_attempts = s.email_validation_attempts + 1]

reset_email_attempts(s) ==
    [s EXCEPT !.email_validation_attempts = 0, !.email_typo_suggested = NoneV]

set_intent_stage(s, stage) == [s EXCEPT !.intent_stage = stage]

can_start_qualification(s) == s.intent_stage \in {"intent_confirmed", "qualifying"}

\* a reset that would also forget the qualification (C3 excludes it)
reset_and_unqualify(s) ==
    [s EXCEPT !.intent_stage = "exploring", !.rag_questions_count = 0, !.is_qualified = FALSE]

reset_to_exploration(s) ==
    [s EXCEPT !.intent_stage = "exploring", !.rag_questions_count = 0]

reset_field_tracking(s) ==
    [s EXCEPT !.current_field_being_asked = NoneV, !.current_field_ask_count = 0]

track_field_ask(s, field) ==
    IF s.current_field_being_asked # field
    THEN [s EXCEPT !.current_field_being_asked = field, !.current_field_ask_count = 1]
    ELSE [s EXCEPT !.current_field_ask_count =
              IF s.current_field_ask_count < MaxAskCount THEN s.current_field_ask_count + 1
              ELSE MaxAskCount]

is_skippable_field(s, field) ==
    field \in SeqToSet(get_preferred_fields(IF Truthy(s.customer_type) THEN s.customer_type ELSE ""))

MAX_ASKS == 2

\* a skip rule that would give up any field, contact fields included (C21 excludes it)
should_skip_any_field(s) ==
    /\ s.current_field_ask_count >= MAX_ASKS
    /\ Truthy(s.current_field_being_asked)

should_skip_field(s) ==
    /\ s.current_field_ask_count >= MAX_ASKS
    /\ Truthy(s.current_field_being_asked)
    /\ is_skippable_field(s, s.current_field_being_asked)

(***************************************************************************)
(* User messages.  Each utterance carries the outcome of every keyword     *)
(* predicate the code applies to the message text, and the function        *)
(* arguments the extraction LLM returns for it when it answers (a sequence *)
(* of key/value pairs in the order of the JSON object).  `intent` says     *)
(* whether the message speaks about the user's business, so that the type  *)
(* detector can read a customer type out of it.                            *)
(***************************************************************************)
KV(k, v) == [k |-> k, v |-> v]

U(text, features, ext, intent) == [text |-> text, f |-> features, ext |-> ext, intent |-> intent]

Utterances ==
    { U("bye", {"goodbye", "short_answer"}, <<>>, FALSE),
      U("yes", {"brief", "confirmed_ack", "hc_confirmation", "pending_affirmative", "short_answer", "typo_yes"}, <<>>, FALSE),
      U("no", {"brief", "closure", "hc_denial", "refusal", "short_answer", "typo_no"}, <<>>, FALSE),
      U("can i talk to a real person", {"human_request", "short_answer", "wc_gt5"}, <<>>, FALSE),
      U("phone", {"phone_word", "short_answer"}, <<KV("phone", PREF_WORD_PHONE)>>, FALSE),
      U("email", {"email_word", "mentions_mail", "short_answer"}, <<KV("email", PREF_WORD_EMAIL)>>, FALSE),
      U("both", {"both_word", "short_answer"}, <<>>, FALSE),
      U("i don't want to share my email", {"email_word", "mentions_mail", "refusal", "short_answer", "wc_gt5"}, <<>>, FALSE),
      U("+1 555 123 4567", {"explicit_country", "plus_phone", "short_answer"}, <<KV("phone", PHONE_A)>>, FALSE),
      U("+1 555 987 6543", {"explicit_country", "plus_phone", "short_answer"}, <<KV("phone", PHONE_B)>>, FALSE),
      U("5551234567", {"bare_number", "short_answer"}, <<KV("phone", PHONE_RAW10)>>, FALSE),
      U("636737", {"bare_number", "short_answer"}, <<KV("phone", PHONE_SHORT)>>, FALSE),
      U("uk 5550001111", {"short_answer"}, <<KV("phone", PHONE_RAW10_UK)>>, FALSE),
      U("sam@gmail.com", {"email_word", "has_at", "mentions_mail", "short_answer"}, <<KV("email", EMAIL_A)>>, FALSE),
      U("sam@gmail.invalid", {"email_word", "has_at", "mentions_mail", "short_answer"},
        <<KV("email", EMAIL_INVALID)>>, FALSE),
      U("sam@gmaill.com", {"email_word", "has_at", "mentions_mail", "short_answer"},
        <<KV("email", EMAIL_TYPO)>>, FALSE),
      U("my name is sam", {"short_answer"}, <<KV("name", NAME_A)>>, FALSE),
      U("i want to open a cafe in 3 months, bold coffee, no equipment, 200 cups a day",
        {"hc_denial", "refusal", "wc_gt10", "wc_gt5", "style_overlap"},
        <<KV("timeline", "in_3_months"), KV("coffee_style", "bold_coffee"),
          KV("equipment", "no_equipment"), KV("volume", "200_cups_daily")>>, TRUE),
      U("soon", {"short_answer"}, <<KV("timeline", "unclear")>>, FALSE),
      U("we want to switch", {"short_answer"}, <<KV("current_pain_points", "unclear")>>, TRUE),
      U("what blends do you have?", {"is_question", "short_answer"}, <<>>, TRUE) }

Has(m, feature) == feature \in m.f

(***************************************************************************)
(* Validators (utils/validators.py through validation_service)             *)
(***************************************************************************)
\* validate_phone: E.164 form of a valid number, NoneV when invalid
FormatPhone(v) ==
    IF v \in {PHONE_A, PHONE_RAW10} THEN PHONE_A
    ELSE IF v \in {PHONE_B, PHONE_RAW10_B} THEN PHONE_B
    ELSE NoneV

validate_and_format_phone(v) ==
    [success |-> FormatPhone(v) # NoneV, formatted_phone |-> FormatPhone(v)]

\* number of digits of a phone value is exactly ten / at least ten
TenDigits(v) == v \in {PHONE_RAW10, PHONE_RAW10_B, PHONE_RAW10_UK}
AtLeastTenDigits(v) ==
    v \in {PHONE_RAW10, PHONE_RAW10_B, PHONE_RAW10_UK, PHONE_A, PHONE_B, PHONE_UK_AS_US, PHONE_UK_REVIEW}

validate_and_format_email(v) ==
    [success |-> v \in {EMAIL_A, EMAIL_B},
     normalized_email |-> IF v \in {EMAIL_A, EMAIL_B} THEN v ELSE NoneV,
     typo_detected |-> FALSE,
     suggested_correction |-> NoneV]

\* validators.detect_email_typo: the provider the domain is a misspelling of
detect_email_typo(v) == IF v = EMAIL_TYPO THEN EMAIL_A ELSE NoneV

validate_name(v) ==
    [success |-> v = NAME_A, cleaned_name |-> IF v = NAME_A THEN v ELSE NoneV]

is_actual_email(v) == v \in {EMAIL_A, EMAIL_B, EMAIL_INVALID, EMAIL_TYPO}

\* a phone value made of letters only (a preference word)
LettersOnly(v) == v = PREF_WORD_PHONE

(***************************************************************************)
(* LLMExtractor.extract_fields_with_llm: post-processing of the function   *)
(* arguments `raw`.  It writes the two preference flags of the state it is *)
(* given; the result is the filtered field list and that state.            *)
(***************************************************************************)
Keys(ext) == {ext[i].k : i \in 1..Len(ext)}

ValueOf(ext, key) == CHOOSE i \in 1..Len(ext) : ext[i].k = key

\* dict.get(key): the value stored under key, NoneV when absent
Get(ext, key) == IF key \in Keys(ext) THEN ext[ValueOf(ext, key)].v ELSE NoneV

Drop(ext, key) == SelectSeq(ext, LAMBDA e : e.k # key)

\* existing cafes: a coffee_preference without a current_coffee_style is dropped
filter_coffee_preference(fields, customer_type, s) ==
    [fields |-> IF customer_type = "existing_cafe" /\ "coffee_preference" \in Keys(fields)
                   /\ ~Truthy(s.current_coffee_style)
                THEN Drop(fields, "coffee_preference")
                ELSE fields,
     s |-> s]

\* a phone made of letters is a preference, not a number
filter_phone_preference(fields, customer_type, s) ==
    IF "phone" \in Keys(fields) /\ LettersOnly(Get(fields, "phone"))
    THEN filter_coffee_preference(Drop(fields, "phone"), customer_type,
                                  [s EXCEPT !.phone_preference_indicated = TRUE])
    ELSE filter_coffee_preference(fields, customer_type, s)

\* an e-mail that is not an address is a preference
filter_email_preference(fields, customer_type, s) ==
    IF "email" \in Keys(fields) /\ ~is_actual_email(Get(fields, "email"))
    THEN filter_phone_preference(Drop(fields, "email"), customer_type,
                                 [s EXCEPT !.email_preference_indicated = TRUE])
    ELSE filter_phone_preference(fields, customer_type, s)

extract_fields_with_llm(raw, customer_type, s) ==
    filter_email_preference(IF customer_type = "unclear"
                            THEN SelectSeq(raw, LAMBDA e : e.k \in ContactFields)
                            ELSE raw,
                            customer_type, s)

(***************************************************************************)
(* Results of one step of a turn: the state so far and either no response  *)
(* yet, the response returned to the caller, or an exception.              *)
(***************************************************************************)
NoRet == [kind |-> "none"]

Cont(s) == [s |-> s, r |-> NoRet]

Reply(s, response, should_end) ==
    [s |-> s, r |-> [kind |-> "reply", response |-> response, should_end |-> should_end]]

Raise(s, where) == [s |-> s, r |-> [kind |-> "raise", at |-> where]]

Returned(x) == x.r # NoRet

(***************************************************************************)
(* Inputs of one turn.  `in` records the message and what each             *)
(* collaborator does during the turn:                                      *)
(*   m          the utterance                                              *)
(*   ext_ok     the extraction LLM answers this turn's calls with the      *)
(*              fields of the message (else with nothing: the extractor    *)
(*              swallows every error and returns {})                       *)
(*   prev_ok    likewise for the call on the previous user message (the    *)
(*              extractor is either up or down for the whole turn)         *)
(*   type_res   result of type_detector.detect_with_llm (NoType on error)  *)
(*   type_retry result of the second call made when the first gave None    *)
(*   flow       flow_state of flow_detector.detect_flow_state              *)
(*   qintent    verdict of the LLM question-intent detector                *)
(*   has_bot    the history holds a bot message                            *)
(*   bot_asked  the field whose question keyword is found in the last bot  *)
(*              message (NoneV if none)                                    *)
(*   early_conversation  the history holds at most three messages          *)
(*   rag_fails  the retriever raises                                       *)
(*   gen_fails  the final response-generation call raises                  *)
(***************************************************************************)
RawExt(in) == IF in.ext_ok THEN in.m.ext ELSE <<>>

(***************************************************************************)
(* FlowController.handle_human_connection_request                          *)
(***************************************************************************)
\* a hand-off that would qualify a visitor whose name is unknown (C2 excludes it)
QualifyWithoutName(s) ==
    IF ~s.is_qualified
    THEN set_intent_stage([s EXCEPT !.is_qualified = TRUE], "qualified")
    ELSE s

\* "if not state.is_qualified and state.name: is_qualified = True; stage qualified"
QualifyIfName(s) ==
    IF ~s.is_qualified /\ Truthy(s.name)
    THEN set_intent_stage([s EXCEPT !.is_qualified = TRUE], "qualified")
    ELSE s

ConnectionConfirmed(s) ==
    [s EXCEPT !.human_connection_confirmed = TRUE, !.human_connection_flow_stage = "confirmed"]

HcStage(s, stage) == [s EXCEPT !.human_connection_flow_stage = stage]

ExtractType(s) == IF Truthy(s.customer_type) THEN s.customer_type ELSE "new_cafe"

hc_initial_request(s) ==
    IF Truthy(s.phone) \/ Truthy(s.email)
    THEN Reply(ConnectionConfirmed(QualifyIfName(s)), "hc_reach_out_at_contact", FALSE)
    ELSE Reply(HcStage(s, "awaiting_method"), "hc_phone_or_email", FALSE)

\* a method choice that would skip asking for the number (C8 excludes it)
hc_method_skips_phone(s, m) ==
    IF Has(m, "phone_word")
    THEN Reply([s EXCEPT !.human_connection_flow_stage = "awaiting_phone_confirmation",
                         !.phone_preference_indicated = TRUE],
               "hc_ask_phone", FALSE)
    ELSE Reply(s, "hc_method_unclear", FALSE)

hc_awaiting_method(s, m) ==
    IF Has(m, "mentions_mail") /\ Has(m, "refusal")
    THEN Reply([track_contact_refusal(s, "email") EXCEPT
                    !.human_connection_flow_stage = "awaiting_phone",
                    !.email_preference_indicated = FALSE],
               "hc_method_email_refused_ask_phone", FALSE)
    ELSE IF Has(m, "both_word")
    THEN Reply([s EXCEPT !.human_connection_flow_stage = "awaiting_phone",
                         !.phone_preference_indicated = TRUE,
                         !.email_preference_indicated = TRUE],
               "hc_both_start_with_phone", FALSE)
    ELSE IF Has(m, "phone_word")
    THEN Reply([s EXCEPT !.human_connection_flow_stage = "awaiting_phone",
                         !.phone_preference_indicated = TRUE],
               "hc_ask_phone", FALSE)
    ELSE IF Has(m, "email_word")
    THEN Reply([s EXCEPT !.human_connection_flow_stage = "awaiting_email",
                         !.email_preference_indicated = TRUE],
               "hc_ask_email", FALSE)
    ELSE Reply(s, "hc_method_unclear", FALSE)

\* stage 3, once the extractor has answered
hc_phone_extracted(s, raw_phone) ==
    IF Truthy(raw_phone)
    THEN IF validate_and_format_phone(raw_phone).success
         THEN Reply([s EXCEPT !.phone = validate_and_format_phone(raw_phone).formatted_phone,
                              !.human_connection_flow_stage = "awaiting_phone_confirmation"],
                    "hc_is_this_the_best_number", FALSE)
         ELSE Reply(s, "hc_phone_invalid", FALSE)
    ELSE Reply(s, "hc_phone_not_caught", FALSE)

hc_phone_from(ex) == hc_phone_extracted(ex.s, Get(ex.fields, "phone"))

hc_awaiting_phone(s, in) == hc_phone_from(extract_fields_with_llm(RawExt(in), ExtractType(s), s))

hc_awaiting_phone_confirmation(s, m) ==
    IF Has(m, "hc_denial")
    THEN Reply([s EXCEPT !.phone = NoneV, !.human_connection_flow_stage = "awaiting_phone"],
               "hc_correct_phone_number", FALSE)
    ELSE IF Has(m, "hc_confirmation")
    THEN IF s.email_preference_indicated /\ ~Truthy(s.email)
         THEN Reply(HcStage(s, "awaiting_email"), "hc_now_email", FALSE)
         ELSE Reply(HcStage(s, "awaiting_email_backup"), "hc_email_backup", FALSE)
    ELSE Reply(s, "hc_confirm_phone_again", FALSE)

\* stages 4 and 5, once the extractor has answered
hc_email_extracted(s, raw_email, tag) ==
    IF Truthy(raw_email)
    THEN IF validate_and_format_email(raw_email).success
         THEN Reply(QualifyIfName(ConnectionConfirmed(
                        [s EXCEPT !.email = validate_and_format_email(raw_email).normalized_email])),
                    tag, FALSE)
         ELSE Reply(s, "hc_email_invalid", FALSE)
    ELSE Reply(s, "hc_email_not_caught", FALSE)

hc_email_from(ex, tag) == hc_email_extracted(ex.s, Get(ex.fields, "email"), tag)

\* extraction and validation of an e-mail address, shared shape of stages 4 and 5
hc_take_email(s, in, tag) ==
    hc_email_from(extract_fields_with_llm(RawExt(in), ExtractType(s), s), tag)

hc_awaiting_email_backup(s, in) ==
    IF Has(in.m, "refusal")
    THEN Reply(QualifyIfName(ConnectionConfirmed(
                   [track_contact_refusal(s, "email") EXCEPT !.email = USER_DECLINED])),
               "hc_backup_refused_use_phone", FALSE)
    ELSE hc_take_email(s, in, "hc_reach_out_phone_or_email")

hc_awaiting_email(s, in) ==
    IF Has(in.m, "refusal")
    THEN Reply([track_contact_refusal(s, "email") EXCEPT
                    !.email = USER_DECLINED,
                    !.human_connection_flow_stage = "awaiting_phone"],
               "hc_email_refused_offer_phone", FALSE)
    ELSE hc_take_email(s, in, "hc_reach_out_at_email")

handle_human_connection_request(s, in) ==
    IF Has(in.m, "human_request") THEN hc_initial_request(s)
    ELSE IF s.human_connection_flow_stage = "awaiting_method" THEN hc_awaiting_method(s, in.m)
    ELSE IF s.human_connection_flow_stage = "awaiting_phone" THEN hc_awaiting_phone(s, in)
    ELSE IF s.human_connection_flow_stage = "awaiting_phone_confirmation"
         THEN hc_awaiting_phone_confirmation(s, in.m)
    ELSE IF s.human_connection_flow_stage = "awaiting_email_backup" THEN hc_awaiting_email_backup(s, in)
    ELSE IF s.human_connection_flow_stage = "awaiting_email" THEN hc_awaiting_email(s, in)
    ELSE IF s.human_connection_flow_stage = "confirmed" /\ s.human_connection_confirmed
            /\ Has(in.m, "confirmed_ack")
         THEN Reply(s, "hc_team_will_be_in_touch", FALSE)
    ELSE Cont(s)

(***************************************************************************)
(* Collaborator results                                                    *)
(***************************************************************************)
TypeResult(ct, conf, order) == [customer_type |-> ct, confidence |-> conf, wants_to_place_order |-> order]

\* detect_with_llm returns None when the call fails
NoType == TypeResult("none", "none", FALSE)

TypeResults ==
    { NoType,
      TypeResult("new_cafe", "high", FALSE),
      TypeResult("new_cafe", "medium", FALSE),
      TypeResult("new_cafe", "low", FALSE),
      TypeResult("existing_cafe", "high", FALSE),
      TypeResult("unclear", "medium", FALSE),
      TypeResult("unclear", "low", FALSE),
      TypeResult("unclear", "low", TRUE) }

\* results of the second detect_with_llm call of a turn
RetryResults == {NoType, TypeResult("new_cafe", "high", FALSE)}

FlowStates == {"continuing", "wants_to_exit", "refuses_contact_info", "asking_question"}

\* question-intent detector: "none" when it fails or is not confident
QuestionIntents == {"none", "question", "answer"}

\* the retriever is called outside every try block
answer_rag_question_unlimited(s, in, response) ==
    IF in.rag_fails THEN Raise(s, "retriever") ELSE Reply(s, response, FALSE)

\* RAGContextBuilder.build_redirect_instruction: the instruction chosen
build_redirect_instruction(rag_count) ==
    IF rag_count = 1 THEN "gentle_redirect"
    ELSE IF rag_count = 2 THEN "stronger_redirect"
    ELSE IF rag_count = 3 THEN "redirect_with_value"
    ELSE "defer_firmly"

\* the answer is generated under the instruction of the new count
handle_rag_question(s, in) ==
    LET s1 == increment_rag_count(s)
    IN  IF in.rag_fails THEN Raise(s1, "retriever")
        ELSE [s |-> s1,
              r |-> [kind |-> "reply", response |-> "rag_answer_with_redirect", should_end |-> FALSE,
                     redirect |-> build_redirect_instruction(s1.rag_questions_count)]]

(***************************************************************************)
(* FlowController.handle_post_qualification_flow                           *)
(***************************************************************************)
handle_post_qualification_flow(s, m) ==
    IF ~s.is_qualified /\ s.intent_stage \notin {"qualifying", "intent_confirmed"} THEN Cont(s)
    ELSE IF Has(m, "closure") THEN Reply(s, "post_qualification_closure", TRUE)
    ELSE Cont(s)

(***************************************************************************)
(* OutboundBot.process_message, lines 171-232: current field and the       *)
(* parallel detection calls.  d.bound says whether the local variable      *)
(* missing_fields has been assigned.                                       *)
(***************************************************************************)
InQualification(s) == Truthy(s.customer_type) /\ can_start_qualification(s) /\ ~s.is_qualified

detection_results(ex, bound, missing, typed, in) ==
    [s |-> ex.s,
     bound |-> bound,
     missing_fields |-> missing,
     current_field |-> IF missing # <<>> THEN Head(missing) ELSE NoneV,
     flow_state |-> IF typed THEN in.flow ELSE NoneV,
     customer_type_result |-> IF typed THEN NoType ELSE in.type_res,
     early_extracted_fields |-> ex.fields]

\* lines 178-232, with the state as lines 172-175 leave it
detect_in_parallel(s1, bound, missing, typed, in) ==
    detection_results(IF typed /\ ~bound THEN [fields |-> <<>>, s |-> s1]
                      ELSE extract_fields_with_llm(RawExt(in),
                                                   IF typed THEN s1.customer_type ELSE "unclear", s1),
                      bound, missing, typed, in)

parallel_detection(s, in) ==
    IF InQualification(s)
    THEN detect_in_parallel(StateAfterMissing(s, s.customer_type), TRUE,
                            get_missing_fields(s, s.customer_type),
                            s.customer_type \in {"new_cafe", "existing_cafe"}, in)
    ELSE detect_in_parallel(s, FALSE, <<>>, s.customer_type \in {"new_cafe", "existing_cafe"}, in)

(***************************************************************************)
(* The two tasks of lines 184-230, each reduced to the step that runs when *)
(* its LLM call completes.  The detector task is given the message, the    *)
(* history and the current field, never the state; the extraction task is  *)
(* given the state and writes its two preference flags.  asyncio.gather    *)
(* returns once both have completed, in either order.                      *)
(***************************************************************************)
\* a detector whose verdict would depend on a flag the extraction writes
\* (C18 excludes it)
detector_task_reading_flags(s, typed, in) ==
    [s |-> s,
     flow_state |-> IF typed
                    THEN (IF s.email_preference_indicated \/ s.phone_preference_indicated
                          THEN "continuing" ELSE in.flow)
                    ELSE NoneV,
     customer_type_result |-> IF typed \/ s.email_preference_indicated \/ s.phone_preference_indicated
                              THEN NoType ELSE in.type_res]

\* flow_detector.detect_flow_state or type_detector.detect_with_llm
detector_task(s, typed, in) ==
    [s |-> s,
     flow_state |-> IF typed THEN in.flow ELSE NoneV,
     customer_type_result |-> IF typed THEN NoType ELSE in.type_res]

\* extraction_service.extract_fields_with_llm (not dispatched after intent
\* outside qualification)
extraction_task(s, bound, typed, in) ==
    IF typed /\ ~bound THEN [fields |-> <<>>, s |-> s]
    ELSE extract_fields_with_llm(RawExt(in), IF typed THEN s.customer_type ELSE "unclear", s)

\* what the turn goes on with once both tasks are done
gathered(s, det, ex, bound, missing) ==
    [s |-> s,
     bound |-> bound,
     missing_fields |-> missing,
     current_field |-> IF missing # <<>> THEN Head(missing) ELSE NoneV,
     flow_state |-> det.flow_state,
     customer_type_result |-> det.customer_type_result,
     early_extracted_fields |-> ex.fields]

\* the detector completes first, the extraction runs on the state it leaves
extraction_after(det, bound, missing, typed, in) ==
    gathered(extraction_task(det.s, bound, typed, in).s, det,
             extraction_task(det.s, bound, typed, in), bound, missing)

detector_first(s1, bound, missing, typed, in) ==
    extraction_after(detector_task(s1, typed, in), bound, missing, typed, in)

\* the extraction completes first, the detector runs on the state it leaves
detector_after(ex, bound, missing, typed, in) ==
    gathered(detector_task(ex.s, typed, in).s, detector_task(ex.s, typed, in), ex, bound, missing)

extraction_first(s1, bound, missing, typed, in) ==
    detector_after(extraction_task(s1, bound, typed, in), bound, missing, typed, in)

(***************************************************************************)
(* FlowController.handle_early_flow                                        *)
(***************************************************************************)
StartsWithPlus(v) == v \in {PHONE_A, PHONE_B, PHONE_UK_AS_US, PHONE_UK_REVIEW}

ContainsAt(v) == v \in {EMAIL_A, EMAIL_B, EMAIL_INVALID, EMAIL_TYPO}

handle_order_request(s, m) ==
    LET is_first_request == ~s.wants_to_place_order
        s1 == [s EXCEPT !.wants_to_place_order = TRUE]
    IN  IF StartsWithPlus(s1.phone) \/ ContainsAt(s1.email)
        THEN Reply(s1, "order_team_will_reach_out", FALSE)
        ELSE IF is_first_request THEN Reply(s1, "order_phone_or_email", FALSE)
        ELSE IF Has(m, "phone_word")
        THEN Reply([s1 EXCEPT !.phone_preference_indicated = TRUE], "order_ask_phone", FALSE)
        ELSE IF Has(m, "email_word")
        THEN Reply([s1 EXCEPT !.email_preference_indicated = TRUE], "order_ask_email", FALSE)
        ELSE Cont(s1)

handle_early_flow(s, in, pre_detected_result) ==
    IF Has(in.m, "details_first") /\ (in.bot_asked = "name" \/ in.early_conversation)
    THEN Reply(s, "details_first_overview", FALSE)
    ELSE IF pre_detected_result # NoType /\ pre_detected_result.wants_to_place_order
    THEN handle_order_request(s, in.m)
    ELSE Cont(s)

(***************************************************************************)
(* OutboundBot.process_message, lines 246-358: flow state handling         *)
(***************************************************************************)
\* an exit that would also forget what the visitor is opening (C20 excludes it)
flow_exit_forgetting_type(s) ==
    Reply(reset_to_exploration([s EXCEPT !.customer_type = NoneV]), "exit_feel_free_to_ask", FALSE)

flow_wants_to_exit(s) == Reply(reset_to_exploration(s), "exit_feel_free_to_ask", FALSE)

flow_refuses_contact_info(s, d) ==
    LET s0 == StateAfterMissing(s, s.customer_type)
        missing == get_missing_fields(s, s.customer_type)
        needs_phone == "phone" \in SeqToSet(missing)
        needs_email == "email" \in SeqToSet(missing)
        declinePhone == reset_field_tracking(set_field(s0, "phone", USER_DECLINED))
        declineEmail == reset_field_tracking(set_field(s0, "email", USER_DECLINED))
    IN  IF d.current_field = "phone" \/ (needs_phone /\ ~Truthy(s0.phone) /\ ~Truthy(s0.email))
        THEN IF ~Truthy(s0.email) /\ needs_email
             THEN Reply(declinePhone, "refused_phone_offer_email", FALSE)
             ELSE IF Truthy(s0.email)
             THEN IF is_complete(declinePhone)
                  THEN Reply(declinePhone, "refused_phone_use_email", FALSE)
                  ELSE IF get_missing_fields(declinePhone, s.customer_type) # <<>>
                  THEN Reply(StateAfterMissing(declinePhone, s.customer_type), "refused_phone_next_question", FALSE)
                  ELSE Cont(declinePhone)
             ELSE Cont(s0)
        ELSE IF d.current_field = "email" \/ (needs_email /\ ~Truthy(s0.email) /\ ~Truthy(s0.phone))
        THEN IF ~Truthy(s0.phone) /\ needs_phone
             THEN Reply(declineEmail, "refused_email_offer_phone", FALSE)
             ELSE IF Truthy(s0.phone)
             THEN IF is_complete(declineEmail)
                  THEN Reply(declineEmail, "refused_email_use_phone", FALSE)
                  ELSE IF get_missing_fields(declineEmail, s.customer_type) # <<>>
                  THEN Reply(StateAfterMissing(declineEmail, s.customer_type), "refused_email_next_question", FALSE)
                  ELSE Cont(declineEmail)
             ELSE Cont(s0)
        ELSE Reply(reset_to_exploration(s0), "refused_both_offer_exploration", FALSE)

\* line 352 reads the local missing_fields, assigned only at line 174
flow_asking_question(s, in, d) ==
    IF Has(in.m, "is_question")
    THEN IF in.rag_fails THEN Raise(s, "retriever")
         ELSE IF ~d.bound THEN Raise(s, "missing_fields_unbound")
         ELSE Reply(s, "question_answered_then_next_field", FALSE)
    ELSE Cont(s)

flow_state_handling(s, in, d) ==
    IF d.flow_state = "wants_to_exit" THEN flow_wants_to_exit(s)
    ELSE IF d.flow_state = "refuses_contact_info" THEN flow_refuses_contact_info(s, d)
    ELSE IF d.flow_state = "asking_question" THEN flow_asking_question(s, in, d)
    ELSE Cont(s)

(***************************************************************************)
(* FlowController.handle_casual_browser                                    *)
(***************************************************************************)
handle_casual_browser(s, in) ==
    IF ~Truthy(s.customer_type) /\ Has(in.m, "casual")
    THEN IF Has(in.m, "is_question")
         THEN answer_rag_question_unlimited(s, in, "casual_no_pressure_answer")
         ELSE Reply(s, "casual_browse_away", FALSE)
    ELSE Cont(s)

(***************************************************************************)
(* ExtractionPipeline.process                                              *)
(***************************************************************************)
\* the value a fallback extraction stores for a non-contact field or a name:
\* the raw text of the user message
RAW_TEXT == "raw_user_message"

\* "+1" followed by the ten digits of the value
PlusOne(v) ==
    IF v = PHONE_RAW10 THEN PHONE_A ELSE IF v = PHONE_RAW10_B THEN PHONE_B
    ELSE IF v = PHONE_RAW10_UK THEN PHONE_UK_AS_US ELSE v

\* lines 240-259: the prefix of the country named in the message, then the digits
CountryPrefixed(v) == IF v = PHONE_RAW10_UK THEN PHONE_UK_REVIEW ELSE PlusOne(v)

\* extract_phone_from_text on the message: a number written with "+"
PhoneInText(m) == IF Has(m, "plus_phone") THEN Get(m.ext, "phone") ELSE NoneV

\* the whole message text taken as a phone number / as an e-mail address
TextAsPhone(m) ==
    IF Has(m, "plus_phone") \/ Has(m, "bare_number") THEN Get(m.ext, "phone") ELSE m.text

TextAsEmail(m) == IF Has(m, "has_at") THEN Get(m.ext, "email") ELSE m.text

is_vague_pain_point(v) == v \in {"some issues", "few problems"}

validate_extraction_consistency(m, key, value) ==
    key = "coffee_style" => Has(m, "style_overlap")

is_ambiguous_number(m) == Has(m, "bare_number")

QualifyingOrOrder(s) == (can_start_qualification(s) /\ ~s.is_qualified) \/ s.wants_to_place_order

_next_field_question(s) ==
    IF get_missing_fields(s, s.customer_type) = <<>> THEN Cont(s)
    ELSE Reply(StateAfterMissing(s, s.customer_type), "perfect_next_field_question", FALSE)

\* lines 66-90 and 106-130: what follows once the pending phone is stored
after_phone_confirmed(s, backup_response) ==
    IF ~Truthy(s.email) /\ (can_start_qualification(s) \/ s.wants_to_place_order)
       /\ ~s.human_connection_confirmed
    THEN Reply(s, backup_response, FALSE)
    ELSE IF is_complete(s)
    THEN Reply([s EXCEPT !.is_qualified = TRUE], "got_all_details_after_phone_confirmation", FALSE)
    ELSE _next_field_question(s)

pending_phone_confirmation_step(s, m) ==
    IF Has(m, "pending_affirmative")
    THEN after_phone_confirmed(
             reset_phone_attempts([s EXCEPT !.phone = s.pending_phone_confirmation,
                                            !.pending_phone_confirmation = NoneV]),
             "confirmed_ask_email_backup")
    ELSE LET new_phone == PhoneInText(m)
             v == validate_and_format_phone(new_phone)
             stored == after_phone_confirmed(
                           reset_phone_attempts([s EXCEPT !.phone = v.formatted_phone,
                                                          !.pending_phone_confirmation = NoneV]),
                           "corrected_ask_email_backup")
         IN  IF Truthy(new_phone) /\ v.success /\ Returned(stored) THEN stored
             ELSE IF Truthy(new_phone) /\ v.success
             THEN Reply(stored.s, "provide_phone_with_country_code", FALSE)
             ELSE Reply([s EXCEPT !.pending_phone_confirmation = NoneV],
                        "provide_phone_with_country_code", FALSE)

should_extract(s) ==
    IF Truthy(s.customer_type)
    THEN (can_start_qualification(s) /\ ~s.is_qualified)
         \/ ~Truthy(s.name) \/ ~Truthy(s.phone) \/ ~Truthy(s.email)
    ELSE s.wants_to_place_order \/ ~Truthy(s.name) \/ ~Truthy(s.phone) \/ ~Truthy(s.email)

\* a store that would qualify on any contact, complete or not (C6 excludes it)
store_and_qualify(s, key, value) ==
    IF key \in {"phone", "email"}
    THEN Reply([reset_field_tracking(set_field(s, key, value)) EXCEPT !.is_qualified = TRUE],
               "got_all_details", FALSE)
    ELSE Cont(reset_field_tracking(set_field(s, key, value)))

\* a store that confirms the order after any contact (C29 excludes it)
store_and_confirm_order(s, key, value) ==
    LET s1 == reset_field_tracking(set_field(s, key, value))
    IN  IF s1.wants_to_place_order /\ key \in {"phone", "email"}
        THEN Reply(s1, "order_contact_collected", FALSE)
        ELSE IF key \in {"phone", "email"} /\ is_complete(s1)
        THEN Reply([s1 EXCEPT !.is_qualified = TRUE], "got_all_details", FALSE)
        ELSE IF key = "phone" /\ ~Truthy(s1.email)
                /\ (can_start_qualification(s1) \/ s1.wants_to_place_order)
                /\ ~s1.human_connection_confirmed
        THEN Reply(s1, "phone_stored_ask_email_backup", FALSE)
        ELSE Cont(s1)

\* lines 322-373: store one validated value and decide whether to answer now
store_validated(s, key, value) ==
    LET s1 == reset_field_tracking(set_field(s, key, value))
    IN  IF s1.wants_to_place_order /\ key = "phone" /\ ~Truthy(s1.email)
        THEN Reply(s1, "order_ask_email_backup", FALSE)
        ELSE IF s1.wants_to_place_order
                /\ (key = "email" \/ (key = "phone" /\ s1.email = USER_DECLINED))
        THEN Reply(s1, "order_contact_collected", FALSE)
        ELSE IF key \in {"phone", "email"} /\ is_complete(s1)
        THEN Reply([s1 EXCEPT !.is_qualified = TRUE], "got_all_details", FALSE)
        ELSE IF key = "phone" /\ ~Truthy(s1.email)
                /\ (can_start_qualification(s1) \/ s1.wants_to_place_order)
                /\ ~s1.human_connection_confirmed
        THEN Reply(s1, "phone_stored_ask_email_backup", FALSE)
        ELSE Cont(s1)

\* lines 217-281: Cont with the value to store, a Reply, or "skip"
store_phone(s, m, value) ==
    LET v == validate_and_format_phone(value)
        s1 == increment_phone_attempts(s)
    IN  IF ~v.success
        THEN IF QualifyingOrOrder(s)
             THEN IF s1.phone_validation_attempts = 1
                  THEN IF TenDigits(value)
                       THEN Reply([s1 EXCEPT !.pending_phone_confirmation = PlusOne(value)],
                                  "is_this_the_best_number", FALSE)
                       ELSE Reply(s1, "phone_not_caught", FALSE)
                  ELSE store_validated(reset_phone_attempts(flag_phone_for_review(s1)), "phone",
                                       IF AtLeastTenDigits(value) THEN CountryPrefixed(value) ELSE value)
             ELSE [s |-> s, r |-> [kind |-> "skip"]]
        ELSE IF TenDigits(value) /\ ~(StartsWithPlus(value) \/ Has(m, "explicit_country"))
                /\ (can_start_qualification(s) \/ s.wants_to_place_order)
        THEN Reply([s EXCEPT !.pending_phone_confirmation = v.formatted_phone],
                   "is_this_the_best_number", FALSE)
        ELSE store_validated(reset_phone_attempts(s), "phone", v.formatted_phone)

set_email_typo_suggested(s, suggested_email) == [s EXCEPT !.email_typo_suggested = suggested_email]

store_email(s, value) ==
    LET v == validate_and_format_email(value)
        s1 == increment_email_attempts(s)
    IN  IF ~v.success
        THEN IF QualifyingOrOrder(s)
             THEN IF s1.email_validation_attempts = 1
                  THEN IF v.typo_detected /\ Truthy(v.suggested_correction)
                       THEN Reply(set_email_typo_suggested(s1, v.suggested_correction),
                                  "i_think_you_meant", FALSE)
                       ELSE Reply(s1, "please_share_a_valid_email", FALSE)
                  ELSE store_validated(reset_email_attempts(s1), "email", value)
             ELSE [s |-> s, r |-> [kind |-> "skip"]]
        ELSE store_validated(reset_email_attempts(s), "email", v.normalized_email)

store_one(s, m, key, value) ==
    IF ~validate_extraction_consistency(m, key, value) THEN [s |-> s, r |-> [kind |-> "skip"]]
    ELSE IF key \in {"volume", "timeline"} /\ is_ambiguous_number(m)
    THEN Reply(s, "ambiguous_number_what", FALSE)
    ELSE IF key = "name"
    THEN IF validate_name(value).success
         THEN store_validated(s, key, validate_name(value).cleaned_name)
         ELSE [s |-> s, r |-> [kind |-> "skip"]]
    ELSE IF key = "phone" THEN store_phone(s, m, value)
    ELSE IF key = "email" THEN store_email(s, value)
    ELSE IF key = "current_pain_points" /\ (value = "unclear" \/ is_vague_pain_point(value))
    THEN Reply(s, "pain_point_clarification", FALSE)
    ELSE IF key = "coffee_preference" /\ value = "interested_unspecified"
    THEN Reply(s, "what_styles", FALSE)
    ELSE IF key = "coffee_preference" /\ value = "unclear"
    THEN Reply([s EXCEPT !.coffee_preference = "needs_discussion_with_team"], "team_can_walk_through", FALSE)
    ELSE store_validated(s, key, value)

\* lines 188-373: the loop over the extracted fields
RECURSIVE store_fields(_, _, _)
RECURSIVE store_rest(_, _, _)
store_fields(s, m, fields) ==
    IF fields = <<>> THEN Cont(s)
    ELSE IF ~Truthy(Head(fields).v) \/ Truthy(get_field(s, Head(fields).k))
    THEN store_fields(s, m, Tail(fields))
    ELSE store_rest(store_one(s, m, Head(fields).k, Head(fields).v), m, Tail(fields))

\* a reply ends the loop; otherwise it goes on with the next field
store_rest(one, m, fields) ==
    IF one.r.kind = "reply" THEN one ELSE store_fields(one.s, m, fields)

\* lines 406-441: fallback extraction from the raw message text
fallback_extraction(s, in) ==
    LET s0 == StateAfterMissing(s, s.customer_type)
        missing == get_missing_fields(s, s.customer_type)
        has_contact_info == Truthy(s0.phone) /\ Truthy(s0.email)
        key == Head(missing)
        vp == validate_and_format_phone(TextAsPhone(in.m))
        ve == validate_and_format_email(TextAsEmail(in.m))
    IN  IF missing # <<>> /\ ~s0.is_qualified /\ ~has_contact_info
        THEN IF in.bot_asked = key
             THEN IF key = "phone"
                  THEN IF vp.success
                       THEN Cont(reset_field_tracking(set_field(s0, key, vp.formatted_phone)))
                       ELSE Reply(s0, "fallback_phone_error", FALSE)
                  ELSE IF key = "email"
                  THEN IF ve.success
                       THEN Cont(reset_field_tracking(set_field(s0, key, ve.normalized_email)))
                       ELSE Reply(s0, "fallback_email_error", FALSE)
                  ELSE Cont(reset_field_tracking(set_field(s0, key, RAW_TEXT)))
             ELSE Cont(s0)
        ELSE Cont(s0)

\* lines 443-484: a contact preference was indicated but no value given
preference_reask(s, m) ==
    LET ve == validate_and_format_email(TextAsEmail(m))
        vp == validate_and_format_phone(TextAsPhone(m))
    IN  IF s.email_preference_indicated /\ ~Truthy(s.email)
        THEN IF s.wants_to_place_order
             THEN IF ve.success
                  THEN Reply([s EXCEPT !.email = ve.normalized_email], "order_noted_email", FALSE)
                  ELSE Reply(s, "order_email_error", FALSE)
             ELSE Reply([s EXCEPT !.email_preference_indicated = FALSE], "whats_your_email_address", FALSE)
        ELSE IF s.phone_preference_indicated /\ ~Truthy(s.phone)
        THEN IF s.wants_to_place_order
             THEN IF vp.success
                  THEN Reply([s EXCEPT !.phone = vp.formatted_phone], "order_phone_ask_email_backup", FALSE)
                  ELSE Reply(s, "order_phone_not_caught", FALSE)
             ELSE Reply([s EXCEPT !.phone_preference_indicated = FALSE], "share_phone_again", FALSE)
        ELSE Cont(s)

\* lines 486-493
after_preference_reask(pr, extracted_fields) ==
    IF Returned(pr) THEN pr
    ELSE IF extracted_fields # <<>> /\ pr.s.rag_questions_count > 0
    THEN Cont(reset_rag_count(pr.s))
    ELSE Cont(pr.s)

\* lines 443-484
after_fallback(fb, extracted_fields, in) ==
    IF Returned(fb) THEN fb
    ELSE after_preference_reask(preference_reask(fb.s, in.m), extracted_fields)

\* lines 375-441
after_store(stored, extracted_fields, in) ==
    IF Returned(stored) THEN stored
    ELSE IF Truthy(stored.s.pending_phone) /\ ~Truthy(stored.s.phone)
    THEN Reply(stored.s, "didnt_catch_the_country", FALSE)
    ELSE IF "current_pain_points" \in Keys(extracted_fields)
            /\ is_vague_pain_point(Get(extracted_fields, "current_pain_points"))
    THEN Reply(stored.s, "pain_point_clarification_prompt", FALSE)
    ELSE after_fallback(IF in.has_bot /\ extracted_fields = <<>> /\ Truthy(stored.s.customer_type)
                        THEN fallback_extraction(stored.s, in)
                        ELSE Cont(stored.s),
                        extracted_fields, in)

\* lines 173-373
store_extracted(s, extracted_fields, in) ==
    IF s.wants_to_place_order /\ Truthy(s.phone) /\ ~Truthy(s.email) /\ Has(in.m, "refusal")
    THEN Reply([track_contact_refusal(s, "email") EXCEPT !.email = USER_DECLINED],
               "order_email_refused_use_phone", FALSE)
    ELSE after_store(store_fields(s, in.m, extracted_fields), extracted_fields, in)

\* lines 169-171
after_extraction(ex, in) ==
    store_extracted(IF can_start_qualification(ex.s) /\ ~ex.s.is_qualified
                       /\ ex.s.intent_stage = "intent_confirmed"
                    THEN set_intent_stage(ex.s, "qualifying")
                    ELSE ex.s,
                    ex.fields, in)

\* lines 137-493, entered once the pending-confirmation block has not answered
extract_and_store(s, in, early_extracted_fields) ==
    after_extraction(IF early_extracted_fields # <<>>
                     THEN [fields |-> early_extracted_fields, s |-> s]
                     ELSE extract_fields_with_llm(RawExt(in), ExtractType(s), s),
                     in)

\* lines 137-153
after_pending_phone(pend, in, early_extracted_fields) ==
    IF Returned(pend) THEN pend
    ELSE IF ~should_extract(pend.s) THEN Cont(pend.s)
    ELSE extract_and_store(pend.s, in, early_extracted_fields)

\* lines 43-135
after_engagement(s, in, early_extracted_fields) ==
    IF s.user_engagement_level = "low" /\ can_start_qualification(s)
    THEN Reply(s, "low_engagement_offer", FALSE)
    ELSE after_pending_phone(IF Truthy(s.pending_phone_confirmation) /\ ~Truthy(s.phone)
                             THEN pending_phone_confirmation_step(s, in.m)
                             ELSE Cont(s),
                             in, early_extracted_fields)

process(s, in, early_extracted_fields) ==
    after_engagement(track_user_engagement(s, Has(in.m, "brief")), in, early_extracted_fields)

(***************************************************************************)
(* FlowController.handle_intent_detection                                  *)
(***************************************************************************)
\* "for key, value in extracted.items(): if value and not get_field(key): set_field"
RECURSIVE StoreUnset(_, _)
StoreUnset(s, fields) ==
    IF fields = <<>> THEN s
    ELSE LET e == Head(fields)
         IN  StoreUnset(IF Truthy(e.v) /\ ~Truthy(get_field(s, e.k)) THEN set_field(s, e.k, e.v) ELSE s,
                        Tail(fields))

store_unset_fields(ex) == StoreUnset(ex.s, ex.fields)

\* one re-extraction with the detected type, lines 494-513 and 515-531
reextract(raw, s) == store_unset_fields(extract_fields_with_llm(raw, s.customer_type, s))

\* lines 479-558, once the result to act on is known
act_on_intent(s, in, intent_result, last_user) ==
    IF intent_result # NoType /\ intent_result.customer_type # "unclear"
    THEN IF intent_result.confidence = "high"
         THEN reextract(IF in.prev_ok THEN last_user ELSE <<>>,
                        reextract(RawExt(in),
                                  set_intent_stage([s EXCEPT !.customer_type = intent_result.customer_type],
                                                   "intent_confirmed")))
         ELSE s
    ELSE IF intent_result # NoType /\ intent_result.confidence = "medium"
    THEN set_intent_stage([s EXCEPT !.customer_type = intent_result.customer_type], "interest_detected")
    ELSE s

handle_intent_detection(s, in, pre_detected_result, last_user) ==
    IF Truthy(s.customer_type) THEN s
    ELSE act_on_intent(s, in, IF pre_detected_result # NoType THEN pre_detected_result ELSE in.type_retry,
                       last_user)

(***************************************************************************)
(* FlowController.handle_email_typo_confirmation                           *)
(***************************************************************************)
handle_email_typo_confirmation(s, m) ==
    LET v == validate_and_format_email(s.email_typo_suggested)
        s1 == [s EXCEPT !.email = v.normalized_email, !.email_typo_suggested = NoneV]
    IN  IF Truthy(s.email_typo_suggested) /\ ~Truthy(s.email)
        THEN IF Has(m, "typo_yes")
             THEN IF v.success
                  THEN IF get_missing_fields(s1, s1.customer_type) # <<>>
                       THEN Reply(StateAfterMissing(s1, s1.customer_type), "typo_fixed_next_question", FALSE)
                       ELSE Reply(StateAfterMissing(s1, s1.customer_type), "typo_fixed_details_together", FALSE)
                  ELSE Cont(s)
             ELSE IF Has(m, "has_at") THEN Cont([s EXCEPT !.email_typo_suggested = NoneV])
             ELSE IF Has(m, "typo_no")
             THEN Reply([s EXCEPT !.email_typo_suggested = NoneV], "whats_the_correct_email", FALSE)
             ELSE Cont(s)
        ELSE Cont(s)

(***************************************************************************)
(* FlowController.handle_rag_during_qualification                          *)
(***************************************************************************)
is_answering_current_field(s, in) ==
    /\ in.has_bot
    /\ Truthy(s.current_field_being_asked)
    /\ in.bot_asked = s.current_field_being_asked
    /\ Has(in.m, "short_answer")
    /\ ~Has(in.m, "is_question")

handle_rag_during_qualification(s, in) ==
    LET is_question_rules == Has(in.m, "is_question")
        is_answering == is_answering_current_field(s, in)
        is_edge_case == in.has_bot /\ ((is_question_rules /\ Has(in.m, "wc_gt10"))
                                       \/ (~is_question_rules /\ ~is_answering /\ Has(in.m, "wc_gt5")))
        is_question == IF is_edge_case /\ in.qintent # "none"
                       THEN in.qintent = "question"
                       ELSE is_question_rules
    IN  IF ~InQualification(s) THEN Cont(s)
        ELSE IF is_question /\ ~is_answering
        THEN handle_rag_question(StateAfterMissing(s, s.customer_type), in)
        ELSE Cont(s)

\* process_message lines 393-405
natural_rag_answer(s, in) ==
    IF (s.is_qualified \/ s.intent_stage \in {"exploring", "interest_detected"})
       /\ Has(in.m, "is_question")
    THEN answer_rag_question_unlimited(s, in, "rag_answer")
    ELSE Cont(s)

(***************************************************************************)
(* FlowController.handle_commitment_upgrade (and process_message 409-424)  *)
(***************************************************************************)
CommitmentSignals(customer_type) ==
    IF customer_type = "new_cafe" THEN {"timeline", "equipment", "volume"}
    ELSE IF customer_type = "existing_cafe" THEN {"current_pain_points", "cafe_count"}
    ELSE {}

handle_commitment_upgrade(s) ==
    IF s.intent_stage = "interest_detected" /\ Truthy(s.customer_type)
       /\ \E f \in CommitmentSignals(s.customer_type) : Truthy(s[f])
    THEN set_intent_stage(s, "intent_confirmed")
    ELSE s

(***************************************************************************)
(* NewCafeQualifier.qualify_new_cafe_customer and                          *)
(* ExistingCafeQualifier.qualify_existing_cafe_customer                    *)
(***************************************************************************)
qualify_customer(s, preferred) ==
    LET missing == (\E f \in SeqToSet(preferred) : ~Truthy(s[f])) \/ ~Truthy(s.name) \/ ~Truthy(s.phone)
        name_error == Truthy(s.name) /\ s.name = NAME_SHORT
        phone_error == /\ Truthy(s.phone)
                       /\ s.phone # USER_DECLINED
                       /\ ~(StartsWithPlus(s.phone) \/ s.phone_needs_manual_review)
                       /\ FormatPhone(s.phone) = NoneV
        email_error == /\ Truthy(s.email)
                       /\ s.email # USER_DECLINED
                       /\ ~validate_and_format_email(s.email).success
        errors == (IF name_error THEN <<"name">> ELSE <<>>)
                  \o (IF phone_error THEN <<"phone">> ELSE <<>>)
                  \o (IF email_error THEN <<"email">> ELSE <<>>)
    IN  [success |-> ~missing /\ errors = <<>>, validation_errors |-> errors]

qualify_new_cafe_customer(s) == qualify_customer(s, NewCafePreferred)

qualify_existing_cafe_customer(s) == qualify_customer(s, ExistingCafePreferred)

(***************************************************************************)
(* FlowController.evaluate_qualification_completion                        *)
(***************************************************************************)
\* an evaluation that answers a validation error and keeps the field
evaluation_keeping_field(s) ==
    LET res == IF s.customer_type = "new_cafe" THEN qualify_new_cafe_customer(s)
               ELSE qualify_existing_cafe_customer(s)
    IN  IF ~(InQualification(s) /\ is_complete(s)) THEN Cont(s)
        ELSE IF res.success
        THEN Reply(set_intent_stage([s EXCEPT !.is_qualified = TRUE], "qualified"),
                   "qualification_complete", FALSE)
        ELSE IF res.validation_errors # <<>>
        THEN Reply(s, "validation_feedback", FALSE)
        ELSE Cont(s)

evaluate_qualification_completion(s) ==
    LET res == IF s.customer_type = "new_cafe" THEN qualify_new_cafe_customer(s)
               ELSE qualify_existing_cafe_customer(s)
    IN  IF ~(InQualification(s) /\ is_complete(s)) THEN Cont(s)
        ELSE IF res.success
        THEN Reply(set_intent_stage([s EXCEPT !.is_qualified = TRUE], "qualified"),
                   "qualification_complete", FALSE)
        ELSE IF res.validation_errors # <<>>
        THEN Reply(set_field(s, Head(res.validation_errors), NoneV), "validation_feedback", FALSE)
        ELSE Cont(s)

\* PromptComposer.build_context, lines 127-155: the state it leaves behind.
\* While qualifying it notes the field it is about to ask for, and gives up a
\* preferred field asked MAX_ASKS times.
ask_next_field(s) ==
    IF get_missing_fields(s, s.customer_type) = <<>> THEN StateAfterMissing(s, s.customer_type)
    ELSE track_field_ask(StateAfterMissing(s, s.customer_type),
                         Head(get_missing_fields(s, s.customer_type)))

skip_asked_field(s) ==
    reset_field_tracking(set_field(s, s.current_field_being_asked, TO_BE_DISCUSSED))

build_context(s) ==
    IF s.intent_stage = "qualifying" /\ Truthy(s.customer_type)
    THEN IF get_missing_fields(s, s.customer_type) # <<>> /\ should_skip_field(ask_next_field(s))
         THEN ask_next_field(skip_asked_field(ask_next_field(s)))
         ELSE ask_next_field(s)
    ELSE s

\* ResponseBuilder.generate_response: retrieval and the LLM call, neither guarded
generate_response(s, in) ==
    IF in.gen_fails \/ (in.rag_fails /\ Has(in.m, "is_question"))
    THEN Raise(s, "generate_response")
    ELSE Reply(build_context(s), "generated", FALSE)

(***************************************************************************)
(* OutboundBot.process_message                                             *)
(***************************************************************************)
\* Each step of process_message takes the outcome x of the step before it:
\* a response already returned ends the turn, otherwise the next handler runs
\* on the state x.s.  The steps are written last first.

\* lines 444-474
after_evaluation(x, in) ==
    IF Returned(x) THEN x ELSE generate_response(x.s, in)

\* lines 433-442
after_pipeline(x, in) ==
    IF Returned(x) THEN x
    ELSE after_evaluation(evaluate_qualification_completion(handle_commitment_upgrade(x.s)), in)

\* lines 407-431
after_natural_rag(x, in, d) ==
    IF Returned(x) THEN x
    ELSE after_pipeline(process(handle_commitment_upgrade(x.s), in, d.early_extracted_fields), in)

\* lines 393-405
after_rag_during_qualification(x, in, d) ==
    IF Returned(x) THEN x ELSE after_natural_rag(natural_rag_answer(x.s, in), in, d)

\* lines 385-391
after_typo(x, in, d) ==
    IF Returned(x) THEN x
    ELSE after_rag_during_qualification(handle_rag_during_qualification(x.s, in), in, d)

\* lines 367-383
after_casual(x, in, d, last_user) ==
    IF Returned(x) THEN x
    ELSE after_typo(handle_email_typo_confirmation(
                        handle_intent_detection(x.s, in, d.customer_type_result, last_user), in.m),
                    in, d)

\* lines 360-365
after_flow_state(x, in, d, last_user) ==
    IF Returned(x) THEN x ELSE after_casual(handle_casual_browser(x.s, in), in, d, last_user)

\* lines 246-358
after_early_flow(x, in, d, last_user) ==
    IF Returned(x) THEN x ELSE after_flow_state(flow_state_handling(x.s, in, d), in, d, last_user)

\* lines 240-244
after_human_connection(x, in, d, last_user) ==
    IF Returned(x) THEN x
    ELSE after_early_flow(handle_early_flow(x.s, in, d.customer_type_result), in, d, last_user)

\* lines 234-238
after_detection(d, in, last_user) ==
    after_human_connection(handle_human_connection_request(d.s, in), in, d, last_user)

\* lines 165-232
after_post_qualification(x, in, last_user) ==
    IF Returned(x) THEN x ELSE after_detection(parallel_detection(x.s, in), in, last_user)

\* a turn that would look for a closure phrase whether qualified or not (C16 excludes it)
process_message_closing_early(s, in, last_user) ==
    IF Has(in.m, "goodbye") THEN Reply(s, "goodbye", TRUE)
    ELSE after_post_qualification(handle_post_qualification_flow(s, in.m), in, last_user)

process_message(s, in, last_user) ==
    IF Has(in.m, "goodbye") THEN Reply(s, "goodbye", TRUE)
    ELSE after_post_qualification(IF s.is_qualified THEN handle_post_qualification_flow(s, in.m)
                                  ELSE Cont(s),
                                  in, last_user)

(***************************************************************************)
(* The inputs a turn can have in a given stored state.  Collaborators the  *)
(* turn cannot call are fixed to one value.                                *)
(***************************************************************************)
Typed(s) == s.customer_type \in {"new_cafe", "existing_cafe"}

NextMissing(s) ==
    IF Truthy(s.customer_type) /\ get_missing_fields(s, s.customer_type) # <<>>
    THEN {Head(get_missing_fields(s, s.customer_type))}
    ELSE {}

\* the type detector on a message that says nothing about the business
PlainTypeResults == {NoType, TypeResult("unclear", "low", FALSE), TypeResult("unclear", "low", TRUE)}

TypeOptions(s, m) ==
    IF Typed(s) THEN {<<NoType, NoType>>}
    ELSE LET first == IF m.intent THEN TypeResults ELSE PlainTypeResults
             retry == IF m.intent /\ ~Truthy(s.customer_type) THEN RetryResults ELSE {NoType}
         IN  {<<t, NoType>> : t \in first \ {NoType}} \cup {<<NoType, t>> : t \in retry}

QuestionOptions(s, h, m) ==
    LET intents == IF InQualification(s) /\ h.has_bot /\ (Has(m, "wc_gt5") \/ Has(m, "wc_gt10"))
                   THEN QuestionIntents ELSE {"none"}
    IN  {<<q, f>> \in intents \X BOOLEAN : f => (Has(m, "is_question") \/ q = "question")}

InputsFor(s, h, m) ==
    { [ m |-> m,
        ext_ok |-> e,
        prev_ok |-> e,
        type_res |-> t[1],
        type_retry |-> t[2],
        flow |-> fl,
        qintent |-> q[1],
        bot_asked |-> b,
        has_bot |-> h.has_bot,
        early_conversation |-> c,
        rag_fails |-> q[2],
        gen_fails |-> g ] :
        e \in IF m.ext = <<>> THEN {TRUE} ELSE BOOLEAN,
        t \in TypeOptions(s, m),
        fl \in IF Typed(s) THEN FlowStates ELSE {"continuing"},
        q \in QuestionOptions(s, h, m),
        b \in IF h.has_bot /\ m.ext = <<>> THEN {NoneV} \cup NextMissing(s) ELSE {NoneV},
        c \in IF Has(m, "details_first") THEN BOOLEAN ELSE {FALSE},
        g \in BOOLEAN }

Inputs(s, h, msgs) == UNION { InputsFor(s, h, m) : m \in msgs }

(***************************************************************************)
(* The conversation: chat.py loads the stored data, calls process_message  *)
(* and stores the data and both messages; an exception stores nothing; a   *)
(* response with should_end closes the conversation.                       *)
(***************************************************************************)
NoHistory == [last_user |-> <<>>, has_bot |-> FALSE]

Requests == 1..MaxInFlight

\* a request slot that serves no message
Idle == [pc |-> "idle"]

NoRequests == [r \in Requests |-> Idle]

Init ==
    /\ state = StateFields
    /\ history = NoHistory
    /\ result = NoRet
    /\ script = 0
    /\ inflight = NoRequests

Ended == result.kind = "reply" /\ result.should_end

\* the previous user message is read only while no customer type is stored
\* and only for the fields it can still fill (or the preference words in it)
Remember(s, m) ==
    [last_user |-> IF Truthy(s.customer_type) THEN <<>>
                   ELSE SelectSeq(m.ext, LAMBDA e : ~Truthy(s[e.k]) \/ e.v \in {PREF_WORD_PHONE, PREF_WORD_EMAIL}),
     has_bot |-> TRUE]

\* what is kept of the returned dict: whether it was returned, and should_end
Observed(r) ==
    IF r.kind = "reply" THEN [kind |-> "reply", should_end |-> r.should_end] ELSE r

\* chat.py stores conversation_data and the two messages once process_message
\* has returned; an exception leaves the stored conversation as it was
Persist(out, m) ==
    /\ result' = Observed(out.r)
    /\ state' = IF out.r.kind = "raise" THEN state ELSE out.s
    /\ history' = IF out.r.kind = "raise" THEN history ELSE Remember(out.s, m)

Deliver(in) == Persist(process_message(state, in, history.last_user), in.m)

Texts(ts) == {m \in Utterances : m.text \in ts}

\* a free conversation whose turns take their inputs from turn_inputs
Conversation(turn_inputs) ==
    /\ script = 0
    /\ ~Ended
    /\ \E in \in turn_inputs : Deliver(in)
    /\ UNCHANGED <<script, inflight>>

(***************************************************************************)
(* Spec: a visitor who gives contact details and asks for a person, before *)
(* or after saying what they are opening.  Collaborators answer; the flow  *)
(* detector sees nothing special.                                          *)
(***************************************************************************)
HumanMessages == Texts({"bye", "yes", "no", "can i talk to a real person", "phone", "email", "both",
    "i don't want to share my email", "+1 555 123 4567", "+1 555 987 6543", "sam@gmail.com", "my name is sam",
    "i want to open a cafe in 3 months, bold coffee, no equipment, 200 cups a day"})

HumanAllowed(in) ==
    /\ in.flow = "continuing"
    /\ ~in.gen_fails /\ ~in.rag_fails
    /\ in.bot_asked = NoneV
    /\ in.type_res \in {NoType, TypeResult("unclear", "low", FALSE), TypeResult("new_cafe", "high", FALSE)}
    /\ in.type_retry = NoType

HumanInputs(s, h) == {in \in Inputs(s, h, HumanMessages) : HumanAllowed(in)}

Next == Conversation(HumanInputs(state, history))

Spec == Init /\ [][Next]_vars

(***************************************************************************)
(* SpecQualification: a visitor who says what they are opening and is      *)
(* taken through the qualification; the extraction LLM may fail.           *)
(***************************************************************************)
QualificationMessages == Texts({"bye", "no", "+1 555 123 4567", "sam@gmail.com",
    "my name is sam", "what blends do you have?",
    "i want to open a cafe in 3 months, bold coffee, no equipment, 200 cups a day"})

QualificationAllowed(in) ==
    /\ in.type_res \in {NoType, TypeResult("unclear", "low", FALSE), TypeResult("new_cafe", "high", FALSE)}
    /\ in.type_retry = NoType
    /\ ~in.gen_fails /\ ~in.rag_fails

QualificationInputs(s, h) == {in \in Inputs(s, h, QualificationMessages) : QualificationAllowed(in)}

QualificationNext == Conversation(QualificationInputs(state, history))

SpecQualification == Init /\ [][QualificationNext]_vars

(***************************************************************************)
(* SpecScenario: the first message is read as a high-confidence new_cafe   *)
(* with timeline, coffee_style, equipment and volume; the later turns      *)
(* supply the name, the phone and the e-mail in any order.  script is 1    *)
(* before the first message and 2 after it.                                *)
(***************************************************************************)
ScenarioOpening == Texts({"i want to open a cafe in 3 months, bold coffee, no equipment, 200 cups a day"})

ScenarioAnswers == Texts({"yes", "+1 555 123 4567", "+1 555 987 6543", "5551234567", "sam@gmail.com",
    "my name is sam"})

ScenarioAllowed(in) ==
    /\ in.flow = "continuing"
    /\ ~in.gen_fails /\ ~in.rag_fails

ScenarioInit ==
    /\ state = StateFields
    /\ history = NoHistory
    /\ result = NoRet
    /\ script = 1
    /\ inflight = NoRequests

ScenarioOpen ==
    /\ script = 1
    /\ \E in \in Inputs(state, history, ScenarioOpening) :
          /\ ScenarioAllowed(in)
          /\ in.ext_ok
          /\ in.type_res = TypeResult("new_cafe", "high", FALSE)
          /\ Deliver(in)
    /\ script' = 2
    /\ UNCHANGED inflight

ScenarioSupply ==
    /\ script = 2
    /\ ~Ended
    /\ \E in \in Inputs(state, history, ScenarioAnswers) :
          /\ ScenarioAllowed(in)
          /\ Deliver(in)
    /\ UNCHANGED <<script, inflight>>

ScenarioNext == ScenarioOpen \/ ScenarioSupply

SpecScenario == ScenarioInit /\ [][ScenarioNext]_vars

(***************************************************************************)
(* SpecDetection: a visitor whose first messages the type detector may     *)
(* read in any way its function schema allows (any customer_type with any  *)
(* confidence), before and after giving contact details.                   *)
(***************************************************************************)
DetectionMessages == Texts({"bye", "yes", "no", "+1 555 123 4567", "sam@gmail.com", "my name is sam",
    "what blends do you have?",
    "i want to open a cafe in 3 months, bold coffee, no equipment, 200 cups a day"})

DetectionAllowed(in) ==
    /\ in.flow = "continuing"
    /\ ~in.gen_fails /\ ~in.rag_fails
    /\ in.bot_asked = NoneV

DetectionInputs(s, h) == {in \in Inputs(s, h, DetectionMessages) : DetectionAllowed(in)}

DetectionNext == Conversation(DetectionInputs(state, history))

SpecDetection == Init /\ [][DetectionNext]_vars

(***************************************************************************)
(* SpecConcurrent: several requests for the same conversation are served   *)
(* at once.  outbound_chat reads the conversation (find_one), awaits       *)
(* process_message on what it read, and writes the data back ($set) with   *)
(* update_one; the event loop can serve another request at every await, so *)
(* the read and the write of a request are separate steps.                 *)
(***************************************************************************)
ConcurrentMessages == Texts({"+1 555 123 4567", "my name is sam"})

ConcurrentAllowed(in) ==
    /\ in.flow = "continuing"
    /\ ~in.gen_fails /\ ~in.rag_fails
    /\ in.bot_asked = NoneV
    /\ in.ext_ok
    /\ in.type_res = NoType /\ in.type_retry = NoType

ConcurrentInputs(s, h) == {in \in Inputs(s, h, ConcurrentMessages) : ConcurrentAllowed(in)}

\* chat.py lines 23-66: the request reads the stored conversation
Load(r) ==
    /\ script = 0
    /\ ~Ended
    /\ inflight[r].pc # "loaded"
    /\ \E in \in ConcurrentInputs(state, history) :
          inflight' = [inflight EXCEPT ![r] = [pc |-> "loaded", s |-> state, h |-> history, in |-> in]]
    /\ UNCHANGED <<state, history, result, script>>

\* what process_message makes of the conversation the request read
Computed(req) == process_message(req.s, req.in, req.h.last_user)

Stored(req, out) == [pc |-> "stored", s |-> req.s, wrote |-> out.s]

\* a write that would be dropped when the conversation changed since the read
\* (C17 says there is no such guard)
StoreIfUnchanged(r) ==
    /\ inflight[r].pc = "loaded"
    /\ IF state = inflight[r].s
       THEN Persist(Computed(inflight[r]), inflight[r].in.m)
       ELSE UNCHANGED <<state, history, result>>
    /\ inflight' = [inflight EXCEPT ![r] = Stored(inflight[r], Computed(inflight[r]))]
    /\ UNCHANGED script

\* chat.py lines 76-148: process_message returns and the data is written back
Store(r) ==
    /\ inflight[r].pc = "loaded"
    /\ Persist(Computed(inflight[r]), inflight[r].in.m)
    /\ inflight' = [inflight EXCEPT ![r] = Stored(inflight[r], Computed(inflight[r]))]
    /\ UNCHANGED script

ConcurrentNext == \E r \in Requests : Load(r) \/ Store(r)

SpecConcurrent == Init /\ [][ConcurrentNext]_vars

(***************************************************************************)
(* SpecFailure: the first turns of a conversation while any collaborator   *)
(* (extraction, retrieval, generation) may fail.                           *)
(***************************************************************************)
FailureMessages == Texts({"my name is sam", "what blends do you have?",
    "i want to open a cafe in 3 months, bold coffee, no equipment, 200 cups a day"})

FailureAllowed(in) ==
    /\ in.type_res \in {NoType, TypeResult("unclear", "low", FALSE), TypeResult("new_cafe", "high", FALSE)}
    /\ in.type_retry = NoType

FailureInputs(s, h) == {in \in Inputs(s, h, FailureMessages) : FailureAllowed(in)}

FailureNext == Conversation(FailureInputs(state, history))

SpecFailure == Init /\ [][FailureNext]_vars

(***************************************************************************)
(* SpecFields: the field manager of one stored conversation.  The state is *)
(* loaded with any customer type and any skipped_preferred_count up to     *)
(* MaxSkipped; callers set and clear fields and query the missing fields.  *)
(***************************************************************************)
LoadedTypes == {NoneV, "unclear", "new_cafe", "existing_cafe"}

FieldsOfType(customer_type) == SeqToSet(get_preferred_fields(customer_type)) \cup ContactFields

FieldsInit ==
    /\ state \in {[StateFields EXCEPT !.customer_type = ct, !.skipped_preferred_count = n] :
                     ct \in LoadedTypes, n \in 0..MaxSkipped}
    /\ history = NoHistory
    /\ result = NoRet
    /\ script = 0
    /\ inflight = NoRequests

SetOne ==
    /\ \E f \in FieldsOfType(state.customer_type), v \in {RAW_TEXT, NoneV} :
           state' = set_field(state, f, v)
    /\ result' = NoRet
    /\ UNCHANGED <<history, script, inflight>>

\* get_missing_fields: result keeps the returned list, state what the call left
QueryMissing ==
    /\ state' = StateAfterMissing(state, state.customer_type)
    /\ result' = [kind |-> "missing", fields |-> get_missing_fields(state, state.customer_type)]
    /\ UNCHANGED <<history, script, inflight>>

FieldsNext == SetOne \/ QueryMissing

SpecFields == FieldsInit /\ [][FieldsNext]_vars

(***************************************************************************)
(* SpecPhone: a visitor in qualification or placing an order who gives     *)
(* phone numbers that do not validate.  Collaborators answer; the flow     *)
(* detector sees nothing special.                                          *)
(***************************************************************************)
PhoneMessages == Texts({"yes", "no", "636737", "uk 5550001111", "+1 555 123 4567",
    "my name is sam", "i want to open a cafe in 3 months, bold coffee, no equipment, 200 cups a day"})

PhoneAllowed(in) ==
    /\ in.flow = "continuing"
    /\ in.ext_ok /\ ~in.gen_fails /\ ~in.rag_fails
    /\ in.bot_asked = NoneV
    /\ in.type_res \in {NoType, TypeResult("unclear", "low", FALSE), TypeResult("unclear", "low", TRUE),
                        TypeResult("new_cafe", "high", FALSE)}
    /\ in.type_retry = NoType

PhoneInputs(s, h) == {in \in Inputs(s, h, PhoneMessages) : PhoneAllowed(in)}

PhoneNext == Conversation(PhoneInputs(state, history))

SpecPhone == Init /\ [][PhoneNext]_vars

(***************************************************************************)
(* SpecEmail: a visitor in qualification or placing an order who gives     *)
(* e-mail addresses that do not validate.                                  *)
(***************************************************************************)
EmailMessages == Texts({"yes", "no", "sam@gmail.invalid", "sam@gmaill.com", "sam@gmail.com",
    "my name is sam", "i want to open a cafe in 3 months, bold coffee, no equipment, 200 cups a day"})

EmailInputs(s, h) == {in \in Inputs(s, h, EmailMessages) : PhoneAllowed(in)}

EmailNext == Conversation(EmailInputs(state, history))

SpecEmail == Init /\ [][EmailNext]_vars

(***************************************************************************)
(* SpecOrder: a visitor who asks to place an order and is asked how to be  *)
(* reached.                                                                *)
(***************************************************************************)
OrderMessages == Texts({"yes", "no", "phone", "email", "+1 555 123 4567", "5551234567",
    "sam@gmail.com", "i don't want to share my email", "my name is sam"})

OrderInputs(s, h) == {in \in Inputs(s, h, OrderMessages) : PhoneAllowed(in)}

OrderNext == Conversation(OrderInputs(state, history))

SpecOrder == Init /\ [][OrderNext]_vars

(***************************************************************************)
(* SpecVague: a cafe owner or founder whose answers are too vague for the  *)
(* extractor to name a value.                                              *)
(***************************************************************************)
VagueMessages == Texts({"yes", "soon", "we want to switch", "my name is sam", "+1 555 123 4567",
    "what blends do you have?"})

VagueAllowed(in) ==
    /\ in.flow = "continuing"
    /\ in.ext_ok /\ ~in.gen_fails /\ ~in.rag_fails
    /\ in.bot_asked = NoneV
    /\ in.type_res \in {NoType, TypeResult("new_cafe", "high", FALSE), TypeResult("existing_cafe", "high", FALSE)}
    /\ in.type_retry = NoType

VagueInputs(s, h) == {in \in Inputs(s, h, VagueMessages) : VagueAllowed(in)}

VagueNext == Conversation(VagueInputs(state, history))

SpecVague == Init /\ [][VagueNext]_vars

(***************************************************************************)
(* Claims                                                                  *)
(***************************************************************************)

\* C1: intent_stage never moves to an earlier stage of exploring <
\* interest_detected < intent_confirmed < qualifying < qualified, except when
\* reset_to_exploration puts it back to exploring (and zeroes the RAG count).
C1_StageNeverRegresses ==
    [][StageRank(state'.intent_stage) < StageRank(state.intent_stage)
          => (state'.intent_stage = "exploring" /\ state'.rag_questions_count = 0)]_vars

\* C2 (as stated): in every stored state, is_qualified holds exactly when the
\* name and a phone or an e-mail are set.
C2_QualifiedIffComplete == state.is_qualified <=> is_complete(state)

\* C2 (amended): in every stored state, is_qualified implies that the name and
\* a phone or an e-mail are set; the converse does not hold.
C2_QualifiedImpliesComplete == state.is_qualified => is_complete(state)

C2_Witness == state.is_qualified /\ state.name = NAME_A /\ state.email = EMAIL_A /\ ~Truthy(state.phone)

\* C3: once is_qualified is true it stays true in every later stored state, so
\* it changes from false to true at most once and never back.
C3_QualifiedIsPermanent == [][state.is_qualified => state'.is_qualified]_vars

C3_Witness ==
    state.is_qualified /\ state.intent_stage = "exploring" /\ state.customer_type = "new_cafe"

\* C4: in the scenario, the stage after the first message is past
\* intent_confirmed, and once the name, the phone and the e-mail have been
\* supplied intent_stage is "qualified" and is_qualified is true.
C4_ScenarioEndsQualified ==
    script = 2 =>
        /\ state.intent_stage \in {"intent_confirmed", "qualifying", "qualified"}
        /\ (Truthy(state.name) /\ Truthy(state.phone) /\ Truthy(state.email))
               => (state.intent_stage = "qualified" /\ state.is_qualified)

\* C5: every turn returns a response dict; the only exception that may leave
\* process_message is a failure of the final response-generation call.
C5_OnlyGenerationMayRaise == result.kind = "raise" => result.at = "generate_response"

\* the turn with outcome `out` has just set is_qualified
Qualifies(s, out) == ~s.is_qualified /\ out.r.kind = "reply" /\ out.s.is_qualified

QualifiesThroughBuilder(s, out) == Qualifies(s, out) => out.r.response = "qualification_complete"

\* C6 (as stated): is_qualified turns true only in a turn that ends with the
\* qualification result builder reporting success.
C6_OnlyThroughBuilder ==
    \A in \in HumanInputs(state, history) :
        QualifiesThroughBuilder(state, process_message(state, in, history.last_user))

\* the replies of the turns that set is_qualified
QualifyingReplies ==
    {"qualification_complete",
     "got_all_details", "got_all_details_after_phone_confirmation",
     "hc_reach_out_at_contact", "hc_reach_out_phone_or_email", "hc_reach_out_at_email",
     "hc_backup_refused_use_phone"}

QualifiesByKnownRoute(s, out) ==
    Qualifies(s, out) => (out.r.response \in QualifyingReplies /\ is_complete(out.s))

\* C6 (amended): is_qualified turns true only in a turn where the builder
\* reports success, or the pipeline stores or confirms a contact, or the
\* human-connection sub-flow is confirmed; and then the name and a phone or
\* an e-mail are set.
C6_QualifiedByKnownRoutes ==
    \A in \in HumanInputs(state, history) :
        QualifiesByKnownRoute(state, process_message(state, in, history.last_user))

C6_Witness == state.is_qualified /\ state.intent_stage = "qualifying" /\ ~state.human_connection_confirmed

\* C7: a field holding a collected value keeps it; it may only be cleared, or
\* marked declined or to-be-discussed.
C7_NoOverwrite ==
    [][\A f \in QualFields :
          (Truthy(state[f]) /\ state[f] \notin {USER_DECLINED, TO_BE_DISCUSSED})
              => state'[f] \in {state[f], NoneV, USER_DECLINED, TO_BE_DISCUSSED}]_vars

HcOrder == <<NoneV, "awaiting_method", "awaiting_phone", "awaiting_phone_confirmation",
             "awaiting_email_backup", "confirmed">>

\* awaiting_email stands at the same place as awaiting_phone
HcRank(stage) ==
    IF stage = "awaiting_email" THEN 3
    ELSE CHOOSE i \in 1..Len(HcOrder) : HcOrder[i] = stage

\* C8 (as stated): human_connection_flow_stage never moves to an earlier stage.
C8_HcStageNeverRegresses ==
    [][HcRank(state'.human_connection_flow_stage) >= HcRank(state.human_connection_flow_stage)]_vars

HcStages == SeqToSet(HcOrder) \cup {"awaiting_email"}

\* the moves of stages 2 to 5 of the sub-flow
HcFlowEdges ==
    { <<"awaiting_method", "awaiting_phone">>, <<"awaiting_method", "awaiting_email">>,
      <<"awaiting_phone", "awaiting_phone_confirmation">>,
      <<"awaiting_phone_confirmation", "awaiting_phone">>,
      <<"awaiting_phone_confirmation", "awaiting_email">>,
      <<"awaiting_phone_confirmation", "awaiting_email_backup">>,
      <<"awaiting_email", "awaiting_phone">>, <<"awaiting_email", "confirmed">>,
      <<"awaiting_email_backup", "confirmed">> }

\* stage 1: a request for a person restarts the sub-flow from any stage
HcRequestEdges == HcStages \X {"awaiting_method", "confirmed"}

HcEdges == HcFlowEdges \cup HcRequestEdges

\* C8 (amended): human_connection_flow_stage repeats, follows one of the moves
\* of the sub-flow (some of which go back: a denied number returns to
\* awaiting_phone, a refused e-mail returns to awaiting_phone), or is restarted
\* by a new request for a person.
C8_HcStageFollowsEdges ==
    [][state'.human_connection_flow_stage # state.human_connection_flow_stage
          => <<state.human_connection_flow_stage, state'.human_connection_flow_stage>> \in HcEdges]_vars

C8_Witness ==
    /\ state.human_connection_flow_stage = "awaiting_phone"
    /\ state.email = USER_DECLINED
    /\ Truthy(state.phone)

\* an e-mail is refused at an e-mail step while a phone is on record
EmailRefusedAtEmailStep(s, m) ==
    /\ s.human_connection_flow_stage \in {"awaiting_email", "awaiting_email_backup"}
    /\ ~s.is_qualified
    /\ Truthy(s.phone)
    /\ Has(m, "refusal")
    /\ ~Has(m, "goodbye") /\ ~Has(m, "human_request")

HandsOffByPhone(s, out) ==
    /\ out.r.kind = "reply"
    /\ out.s.email = USER_DECLINED
    /\ out.s.phone = s.phone
    /\ out.s.human_connection_flow_stage = "confirmed"

\* C9: when an e-mail is refused at an e-mail step of the human-connection
\* sub-flow and a phone has been collected, the e-mail is recorded as
\* declined, the phone is kept and the sub-flow is confirmed in that turn.
C9_EmailRefusalHandsOffByPhone ==
    \A in \in HumanInputs(state, history) :
        EmailRefusedAtEmailStep(state, in.m)
            => HandsOffByPhone(state, process_message(state, in, history.last_user))

\* the replies of the refuses_contact_info branch
RefusalReplies == {"refused_phone_offer_email", "refused_phone_use_email", "refused_phone_next_question",
                   "refused_email_offer_phone", "refused_email_use_phone", "refused_email_next_question",
                   "refused_both_offer_exploration"}

\* the flow detector reports a refusal while phone is the next missing field
\* and no e-mail is known
PhoneRefused(s, in) ==
    /\ in.flow = "refuses_contact_info"
    /\ InQualification(s)
    /\ NextMissing(s) = {"phone"}
    /\ ~Truthy(s.email)

PhoneRefusalRecorded(out) ==
    (out.r.kind = "reply" /\ out.r.response \in RefusalReplies)
        => /\ out.r.response = "refused_phone_offer_email"
           /\ out.s.phone = USER_DECLINED
           /\ out.s.last_refused_field = "phone"
           /\ out.s.contact_refusal_count >= 1
           /\ out.s.refusal_timestamps >= 1

\* C10: a turn handled as refuses_contact_info while phone is the next missing
\* field and no e-mail is known records the refusal of the phone (counter,
\* timestamp, refused field), sets phone to "user_declined" and offers e-mail.
C10_PhoneRefusalRecorded ==
    \A in \in QualificationInputs(state, history) :
        PhoneRefused(state, in)
            => PhoneRefusalRecorded(process_message(state, in, history.last_user))

\* a knowledge question asked during qualification, seen either by the flow
\* detector (asking_question) or by the question rules (continuing)
KnowledgeQuestion(s, in) ==
    /\ InQualification(s)
    /\ Has(in.m, "is_question")
    /\ in.flow \in {"asking_question", "continuing"}
    /\ ~in.rag_fails
    /\ s.rag_questions_count < MaxRagCount

RedirectingAnswers == {"rag_answer_with_redirect", "question_answered_then_next_field"}

AnsweredAndCounted(s, out) ==
    /\ out.r.kind = "reply"
    /\ out.r.response \in RedirectingAnswers
    /\ out.s.rag_questions_count = s.rag_questions_count + 1

\* C11: a turn in which a knowledge question is asked during qualification
\* returns an answer with a redirect to the pending field and increases
\* rag_questions_count by exactly 1, on the asking_question path and on the
\* rule-based path alike.
C11_QuestionAnsweredAndCounted ==
    \A in \in QualificationInputs(state, history) :
        KnowledgeQuestion(state, in)
            => AnsweredAndCounted(state, process_message(state, in, history.last_user))

CustomerTypes == {NoneV, "new_cafe", "existing_cafe"}

\* C12: in every stored state customer_type is None, "new_cafe" or
\* "existing_cafe"; no detector result stores another value.
C12_CustomerTypeInEnum == state.customer_type \in CustomerTypes

\* the detector result handle_intent_detection acts on: the one of the
\* parallel call, else the one of its own call
DetectedResult(in) == IF in.type_res # NoType THEN in.type_res ELSE in.type_retry

CafeTypes == {"new_cafe", "existing_cafe"}

\* s2 is what handle_intent_detection makes of s when the detector says res
DetectionFollowsConfidence(s, res, s2) ==
    /\ (res.customer_type \in CafeTypes /\ res.confidence = "high")
           => (s2.customer_type = res.customer_type /\ s2.intent_stage = "intent_confirmed")
    /\ (res.customer_type \in CafeTypes /\ res.confidence = "medium")
           => (s2.customer_type = res.customer_type /\ s2.intent_stage = "interest_detected")
    /\ (res.customer_type \notin CafeTypes \/ res.confidence \notin {"high", "medium"})
           => (s2.customer_type = s.customer_type /\ s2.intent_stage = s.intent_stage)

\* C13: while no customer type is stored, a detection of new_cafe or
\* existing_cafe with high confidence stores the type and sets intent_stage to
\* intent_confirmed; with medium confidence it stores the type and sets
\* interest_detected; a low confidence, an unclear type or a failed detection
\* leaves customer_type and intent_stage as they were.
C13_DetectionFollowsConfidence ==
    \A in \in DetectionInputs(state, history) :
        ~Truthy(state.customer_type)
            => DetectionFollowsConfidence(state, DetectedResult(in),
                   handle_intent_detection(state, in, in.type_res, history.last_user))

\* the fields the bot collects from a visitor of the type: the preferred
\* fields of the type and the contact fields asked of every visitor
QualificationFieldsOf(customer_type) == SeqToSet(get_preferred_fields(customer_type)) \cup ContactFields

\* a qualification field of the type is unset in s and set in s2
Populated(s, s2, customer_type) ==
    \E f \in QualificationFieldsOf(customer_type) : ~Truthy(s[f]) /\ Truthy(s2[f])

\* C14: a conversation in interest_detected is upgraded (to intent_confirmed
\* or further) in the turn in which a qualification field of its customer
\* type becomes populated, and it moves from interest_detected to
\* intent_confirmed only in such a turn.
C14_UpgradeOnFirstField ==
    [][state.intent_stage = "interest_detected"
          => /\ Populated(state, state', state.customer_type)
                    => StageRank(state'.intent_stage) >= StageRank("intent_confirmed")
             /\ state'.intent_stage = "intent_confirmed"
                    => Populated(state, state', state.customer_type)]_vars

Sentinels == {TO_BE_DISCUSSED, USER_DECLINED}

\* the replies that ask the visitor for an e-mail address / a phone number
EmailQuestions ==
    {"hc_ask_email", "hc_now_email", "hc_email_backup", "hc_email_invalid", "hc_email_not_caught",
     "refused_phone_offer_email", "phone_stored_ask_email_backup", "confirmed_ask_email_backup",
     "corrected_ask_email_backup", "order_ask_email_backup", "order_phone_ask_email_backup",
     "order_ask_email", "please_share_a_valid_email", "whats_your_email_address",
     "whats_the_correct_email"}

PhoneQuestions ==
    {"hc_ask_phone", "hc_both_start_with_phone", "hc_method_email_refused_ask_phone",
     "hc_correct_phone_number", "hc_phone_invalid", "hc_phone_not_caught",
     "hc_email_refused_offer_phone", "refused_email_offer_phone", "phone_not_caught",
     "provide_phone_with_country_code", "share_phone_again", "order_phone_not_caught",
     "order_ask_phone"}

\* the replies that end with the question of the first missing field
NextFieldQuestions ==
    {"perfect_next_field_question", "refused_phone_next_question", "refused_email_next_question",
     "typo_fixed_next_question", "question_answered_then_next_field", "rag_answer_with_redirect"}

\* the reply of the turn asks the visitor for field f
Asks(out, f) ==
    /\ out.r.kind = "reply"
    /\ \/ f = "email" /\ out.r.response \in EmailQuestions
       \/ f = "phone" /\ out.r.response \in PhoneQuestions
       \/ /\ out.r.response \in NextFieldQuestions
          /\ get_missing_fields(out.s, out.s.customer_type) # <<>>
          /\ Head(get_missing_fields(out.s, out.s.customer_type)) = f

NeverReasked(s, out) == \A f \in QualFields : s[f] \in Sentinels => ~Asks(out, f)

\* C15: a field holding "to_be_discussed_with_team" or "user_declined" is not
\* in the missing-field list, and no later turn, in the main flow or in the
\* human-connection sub-flow, answers with a question for that field.
C15_SentinelNeverReasked ==
    /\ \A f \in QualFields :
           state[f] \in Sentinels => f \notin SeqToSet(get_missing_fields(state, state.customer_type))
    /\ \A in \in HumanInputs(state, history) :
           NeverReasked(state, process_message(state, in, history.last_user))

\* the turn ends the conversation
EndsConversation(out) == out.r.kind = "reply" /\ out.r.should_end

\* the message holds a goodbye phrase, or the visitor is qualified and the
\* message passes the closure test of handle_post_qualification_flow (a short
\* message holding an exit phrase, or a short acknowledgment)
MayEnd(s, m) == Has(m, "goodbye") \/ (s.is_qualified /\ Has(m, "closure"))

C17_LastWriterWins ==
    [][\A r \in Requests :
          (inflight[r].pc = "loaded" /\ inflight'[r].pc = "stored"
              /\ Computed(inflight[r]).r.kind # "raise")
              => state' = Computed(inflight[r]).s]_vars

\* a field that request a stored is unset again after request b's write
LostUpdate(a, b) ==
    /\ a.pc = "stored" /\ b.pc = "stored"
    /\ a.s = b.s
    /\ state = b.wrote
    /\ \E f \in QualFields : ~Truthy(a.s[f]) /\ Truthy(a.wrote[f]) /\ ~Truthy(state[f])

\* two requests read the same data and the field one of them stored is lost
C17_Witness == \E r1, r2 \in Requests : r1 # r2 /\ LostUpdate(inflight[r1], inflight[r2])

\* the state on which the two tasks are dispatched (lines 172-175 ran)
DispatchState(s) == IF InQualification(s) THEN StateAfterMissing(s, s.customer_type) ELSE s

DispatchMissing(s) == IF InQualification(s) THEN get_missing_fields(s, s.customer_type) ELSE <<>>

\* the turn reaches the parallel block
Dispatches(s, m) == ~Has(m, "goodbye") /\ ~(s.is_qualified /\ Has(m, "closure"))

\* both completion orders give what the turn goes on with
OrdersAgree(s, in) ==
    /\ detector_first(DispatchState(s), InQualification(s), DispatchMissing(s), Typed(s), in)
           = extraction_first(DispatchState(s), InQualification(s), DispatchMissing(s), Typed(s), in)
    /\ parallel_detection(s, in)
           = detector_first(DispatchState(s), InQualification(s), DispatchMissing(s), Typed(s), in)

\* C18 (as stated): the two tasks leave the state as it was when they were
\* dispatched, and the turn goes on with the same results whichever task
\* completes first.
C18_TasksLeaveStateAlone ==
    \A in \in HumanInputs(state, history) :
        Dispatches(state, in.m)
            => (parallel_detection(state, in).s = DispatchState(state) /\ OrdersAgree(state, in))

\* C18 (amended): the detector task neither reads nor writes the state, the
\* extraction task may set email_preference_indicated and
\* phone_preference_indicated and changes nothing else, and the turn goes on
\* with the same state and results whichever task completes first.
C18_OrderIndependent ==
    \A in \in HumanInputs(state, history) :
        Dispatches(state, in.m)
            => /\ OrdersAgree(state, in)
               /\ [parallel_detection(state, in).s EXCEPT !.email_preference_indicated = FALSE,
                                                          !.phone_preference_indicated = FALSE]
                      = [DispatchState(state) EXCEPT !.email_preference_indicated = FALSE,
                                                     !.phone_preference_indicated = FALSE]

\* during qualification (flow detection and extraction dispatched together)
\* the extraction task sets a preference flag
C18_Witness ==
    /\ InQualification(state)
    /\ \E in \in HumanInputs(state, history) :
           /\ Dispatches(state, in.m)
           /\ ~state.phone_preference_indicated
           /\ parallel_detection(state, in).s.phone_preference_indicated

\* the ask-tracking counters are as reset_field_tracking leaves them
TrackingReset(s) == s.current_field_being_asked = NoneV /\ s.current_field_ask_count = 0

SetsField(s, s2) == \E f \in QualFields : s2[f] # s[f]

\* the turn set a field and returned before the prompt for the next question was built
SetsFieldAndReturns(s, out) ==
    out.r.kind = "reply" /\ out.r.response # "generated" /\ SetsField(s, out.s)

\* C19: every operation that sets a field resets the ask-tracking counters:
\* set_field on any field of any stored state leaves
\* current_field_being_asked None and current_field_ask_count 0, and so does
\* every turn that sets a field and returns without asking for the next one.
C19_SettingResetsTracking ==
    /\ \A f \in QualFields : TrackingReset(set_field(state, f, TO_BE_DISCUSSED))
    /\ \A in \in HumanInputs(state, history) :
           SetsFieldAndReturns(state, process_message(state, in, history.last_user))
               => TrackingReset(process_message(state, in, history.last_user).s)

\* the turn with outcome `out` was handled as wants_to_exit
HandledAsExit(out) == out.r.kind = "reply" /\ out.r.response = "exit_feel_free_to_ask"

ExitKeepsData(s, out) ==
    HandledAsExit(out) =>
        /\ out.s.intent_stage = "exploring"
        /\ out.s.customer_type = s.customer_type
        /\ out.s.is_qualified = s.is_qualified
        /\ \A f \in QualFields : out.s[f] = s[f]

\* C20: a turn handled as wants_to_exit puts intent_stage back to exploring
\* and keeps customer_type, every qualification and contact field and
\* is_qualified as they were before the turn.
C20_ExitKeepsData ==
    \A in \in QualificationInputs(state, history) :
        ExitKeepsData(state, process_message(state, in, history.last_user))

\* a visitor in qualification with a name and a timeline collected leaves
C20_Witness ==
    /\ state.intent_stage = "qualifying"
    /\ Truthy(state.name) /\ Truthy(state.timeline)
    /\ \E in \in QualificationInputs(state, history) :
           HandledAsExit(process_message(state, in, history.last_user))

\* the previous reply asked for f, and f comes out of this turn still unanswered
\* while the bot generates the next question
AskedAgainUnanswered(s, out, f) ==
    /\ s.current_field_being_asked = f
    /\ s.current_field_ask_count >= 1
    /\ out.r.kind = "reply" /\ out.r.response = "generated"
    /\ out.s.intent_stage = "qualifying"
    /\ out.s[f] \in {NoneV, TO_BE_DISCUSSED}
    /\ \A g \in QualFields \ {f} : out.s[g] = s[g]

MovedToNextField(s2, f) ==
    /\ s2[f] = TO_BE_DISCUSSED
    /\ s2.current_field_being_asked # f
    /\ IF get_missing_fields(s2, s2.customer_type) = <<>> THEN TrackingReset(s2)
       ELSE /\ s2.current_field_being_asked = Head(get_missing_fields(s2, s2.customer_type))
            /\ s2.current_field_ask_count = 1

SkipsOnSecondAsk(s, out) ==
    /\ \A f \in SeqToSet(get_preferred_fields(s.customer_type)) :
           AskedAgainUnanswered(s, out, f) => MovedToNextField(out.s, f)
    /\ \A f \in ContactFields :
           /\ out.s[f] # TO_BE_DISCUSSED
           /\ AskedAgainUnanswered(s, out, f) => out.s.current_field_being_asked = f

SkippedBy(s, s2) ==
    {f \in SeqToSet(get_preferred_fields(s2.customer_type)) :
        s[f] # TO_BE_DISCUSSED /\ s2[f] = TO_BE_DISCUSSED}

\* C22: every turn that gives up one preferred field (marks it
\* to_be_discussed_with_team) adds one to skipped_preferred_count, so that
\* the count reaches 2 with the second skip and the bulk-skip can fire.
C22_SkipsAreCounted ==
    [][Cardinality(SkippedBy(state, state')) = 1
          => state'.skipped_preferred_count = state.skipped_preferred_count + 1]_vars

AllPreferred == SeqToSet(NewCafePreferred) \cup SeqToSet(ExistingCafePreferred)

\* C23: with skipped_preferred_count at 2 or more, a missing-field query
\* marks every unset preferred field of the customer type
\* to_be_discussed_with_team, keeps the others, and returns a list without
\* any preferred field; so does every later query.
C23_BulkSkip ==
    [][(result'.kind = "missing" /\ state.skipped_preferred_count >= MAX_PREFERRED_SKIPS)
          => /\ \A f \in SeqToSet(get_preferred_fields(state.customer_type)) :
                    state'[f] = IF Truthy(state[f]) THEN state[f] ELSE TO_BE_DISCUSSED
             /\ SeqToSet(result'.fields) \cap AllPreferred = {}]_vars

\* a bulk-skip that marked some fields and kept a collected one
C23_Witness ==
    /\ result.kind = "missing"
    /\ state.skipped_preferred_count >= MAX_PREFERRED_SKIPS
    /\ state.customer_type = "new_cafe"
    /\ state.timeline = RAW_TEXT
    /\ state.volume = TO_BE_DISCUSSED

PriorityOrder(customer_type) == <<"name">> \o get_preferred_fields(customer_type) \o <<"phone", "email">>

\* C24: the list a missing-field query returns is the unset fields of the
\* customer type, as the query leaves them, in the order name, preferred
\* fields as declared, phone, email.
C24_MissingInPriorityOrder ==
    result.kind = "missing"
        => result.fields = SelectSeq(PriorityOrder(state.customer_type), LAMBDA f : ~Truthy(state[f]))

\* a list with the name, two preferred fields and the e-mail, in that order
C24_Witness ==
    /\ result.kind = "missing"
    /\ result.fields = <<"name", "cafe_count", "coffee_preference", "email">>

InvalidPhoneGiven(in) == in.ext_ok /\ Get(in.m.ext, "phone") \in {PHONE_SHORT, PHONE_RAW10_UK}

PhoneFailureHandled(s, out) ==
    IF s.phone_validation_attempts = 0
    THEN /\ out.s.phone = s.phone
         /\ out.r.response \in {"is_this_the_best_number", "phone_not_caught"}
    ELSE /\ Truthy(out.s.phone)
         /\ out.s.phone_needs_manual_review
         /\ out.s.phone_validation_attempts = 0

\* C25: in qualification or the order flow, with no phone stored, a message
\* whose number fails validation stores nothing and is answered by the
\* confirmation or the re-entry prompt when no failure precedes it; when a
\* failure precedes it, the number is stored, flagged for manual review and
\* the attempt counter is back at 0.
C25_SecondFailureStores ==
    \A in \in PhoneInputs(state, history) :
        (InvalidPhoneGiven(in) /\ QualifyingOrOrder(state) /\ ~Truthy(state.phone))
            => PhoneFailureHandled(state, process_message(state, in, history.last_user))

ValidatedFields == {"name", "phone", "email"}

\* the first field the qualification result builder rejects in state s
FirstValidationError(s) ==
    LET res == IF s.customer_type = "new_cafe" THEN qualify_new_cafe_customer(s)
               ELSE qualify_existing_cafe_customer(s)
    IN  IF res.validation_errors = <<>> THEN NoneV ELSE Head(res.validation_errors)

\* the values field f can hold during a turn: the stored one and those the
\* message and the one before it carry
ValuesInTurn(s, in, last_user, f) ==
    {s[f]} \cup {e.v : e \in {x \in SeqToSet(in.m.ext \o last_user) : x.k = f}}

\* the turn ended in out by clearing field f, whose value the builder rejected
ClearedAfterError(out, f, values) ==
    /\ out.s[f] = NoneV
    /\ \E v \in values : FirstValidationError([out.s EXCEPT ![f] = v]) = f

ValidationErrorHandled(s, in, last_user, out) ==
    /\ ~out.s.is_qualified
    /\ \E f \in ValidatedFields :
          /\ ClearedAfterError(out, f, ValuesInTurn(s, in, last_user, f))
          /\ f \in SeqToSet(get_missing_fields(out.s, out.s.customer_type))

RedirectLevels == <<"gentle_redirect", "stronger_redirect", "redirect_with_value", "defer_firmly">>

\* the level of the n-th question in a row: 1, 2, 3, then the firmest
LevelOf(n) == RedirectLevels[IF n >= Len(RedirectLevels) THEN Len(RedirectLevels) ELSE n]

RedirectedAtLevel(s, out) ==
    /\ out.r.kind = "reply"
    /\ "redirect" \in DOMAIN out.r
    /\ out.r.redirect = LevelOf(s.rag_questions_count + 1)

\* the turn stored an answer in a field that was unset
AnswersField(s, out) ==
    \E f \in QualFields : ~Truthy(s[f]) /\ Truthy(out.s[f]) /\ out.s[f] # TO_BE_DISCUSSED

RedirectFollowsCount(s, in, out) ==
    /\ KnowledgeQuestion(s, in) => RedirectedAtLevel(s, out)
    /\ (InQualification(s) /\ AnswersField(s, out)) => out.s.rag_questions_count = 0

\* C27: during qualification a knowledge question asked after n-1 counted
\* ones is answered under the redirect instruction of level n (the firmest
\* from the fourth on), and a turn in which the user answers a field leaves
\* rag_questions_count at 0.
C27_RedirectLevelFollowsCount ==
    \A in \in QualificationInputs(state, history) :
        RedirectFollowsCount(state, in, process_message(state, in, history.last_user))

\* a first address that is one letter away from a known provider and fails
\* validation
TypoGiven(s, in) ==
    /\ in.ext_ok /\ Get(in.m.ext, "email") = EMAIL_TYPO
    /\ ~validate_and_format_email(EMAIL_TYPO).success
    /\ QualifyingOrOrder(s) /\ ~Truthy(s.email)
    /\ s.email_validation_attempts = 0

CorrectionSuggested(s, out) ==
    /\ out.s.email_typo_suggested = detect_email_typo(EMAIL_TYPO)
    /\ out.s.email = s.email

\* C28: a turn whose e-mail address fails validation as a typo of a known
\* provider leaves the suggested correction in email_typo_suggested and
\* stores no e-mail address.
C28_TypoIsSuggested ==
    \A in \in EmailInputs(state, history) :
        TypoGiven(state, in) => CorrectionSuggested(state, process_message(state, in, history.last_user))

HasRealContact(s) == StartsWithPlus(s.phone) \/ ContainsAt(s.email)

HandOffReplies == {"order_contact_collected", "order_team_will_reach_out"}

EmailBackupReplies == {"order_ask_email_backup", "confirmed_ask_email_backup", "corrected_ask_email_backup"}

\* the turn stored the first real contact method of a visitor placing an order
JustCollected(s, out) ==
    ~HasRealContact(s) /\ HasRealContact(out.s) /\ out.s.wants_to_place_order

\* an order request made when a real contact method is stored
AlreadyExisted(s, in) ==
    HasRealContact(s) /\ in.type_res # NoType /\ in.type_res.wants_to_place_order

\* a turn of the order side-flow with a real contact method, not ending the conversation
OrderTurnWithContact(s, in, out) ==
    /\ JustCollected(s, out) \/ AlreadyExisted(s, in)
    /\ out.r.kind = "reply" /\ ~out.r.should_end

PhoneWithoutEmail(s, out) == JustCollected(s, out) /\ ~Truthy(out.s.email)

OrderReplyFollowsContact(s, out) ==
    IF PhoneWithoutEmail(s, out)
    THEN out.r.response \in EmailBackupReplies
    ELSE out.r.response \in HandOffReplies

JudgedVague(v) == v = "unclear" \/ is_vague_pain_point(v)

ClarificationReplies == {"pain_point_clarification", "pain_point_clarification_prompt", "what_styles"}

\* the message carries a vague value for a field of the visitor's type that is unset
VagueAnswer(s, in) ==
    /\ InQualification(s)
    /\ \E e \in SeqToSet(RawExt(in)) :
          /\ e.k \in SeqToSet(get_preferred_fields(s.customer_type))
          /\ JudgedVague(e.v)
          /\ ~Truthy(s[e.k])

\* C30: no field of a stored state holds a value judged vague or "unclear",
\* and a turn whose message carries such a value for an unset field is
\* answered with a clarification question.
C30_VagueNeverStored ==
    /\ \A f \in QualFields : ~JudgedVague(state[f])
    /\ \A in \in VagueInputs(state, history) :
          VagueAnswer(state, in)
              => process_message(state, in, history.last_user).r.response \in ClarificationReplies

(***************************************************************************)
(* SpecRoundTrip: ConversationState.to_dict and from_dict.  The state is    *)
(* the whole dataclass, with the refusal timestamps, the discussed topics  *)
(* and created_at as datetime values; a turn loads the state from the      *)
(* stored dictionary and stores the dictionary of the state it leaves.     *)
(***************************************************************************)
\* seconds the clock can show
MaxClock == 1
\* refusals whose timestamps are kept apart
MaxStamps == 2

\* datetime.now(): naive, with microseconds (0 when the clock is on the second)
Datetimes == [py : {"datetime"}, second : 0..MaxClock, microsecond : {0, 250000}]

\* None where a datetime can stand
NoDatetime == [py |-> "NoneType"]

IsSet(d) == d.py # "NoneType"

\* datetime.isoformat: the text carries the fraction only when microsecond is not 0
isoformat(d) ==
    [py |-> "str", text |-> IF d.microsecond = 0 THEN <<d.second>> ELSE <<d.second, d.microsecond>>]

\* a parser that reads the text to the second
fromisoformat_to_the_second(t) ==
    [py |-> "datetime", second |-> t.text[1], microsecond |-> 0]

\* datetime.fromisoformat: a text without fraction has microsecond 0
fromisoformat(t) ==
    [py |-> "datetime", second |-> t.text[1],
     microsecond |-> IF Len(t.text) = 1 THEN 0 ELSE t.text[2]]

\* dict.get(key, default): the default only when the key is absent
dict_get(data, key, default) == IF key \in DOMAIN data THEN data[key] ELSE default

\* lines 55-62
topics_to_dict(discussed_topics) ==
    [topic \in DOMAIN discussed_topics |->
        [value |-> discussed_topics[topic].value,
         timestamp |-> IF IsSet(discussed_topics[topic].timestamp)
                       THEN isoformat(discussed_topics[topic].timestamp) ELSE NoDatetime,
         was_uncertain |-> discussed_topics[topic].was_uncertain]]

\* lines 100-106: texts are parsed, datetimes kept, anything else dropped
parse_timestamps(stamps) ==
    LET kept == SelectSeq(stamps, LAMBDA ts : ts.py \in {"str", "datetime"})
    IN  [i \in DOMAIN kept |-> IF kept[i].py = "str" THEN fromisoformat(kept[i]) ELSE kept[i]]

\* lines 108-118
topics_from_dict(topics) ==
    [topic \in DOMAIN topics |->
        [value |-> topics[topic].value,
         timestamp |-> IF topics[topic].timestamp.py = "str"
                       THEN fromisoformat(topics[topic].timestamp) ELSE topics[topic].timestamp,
         was_uncertain |-> topics[topic].was_uncertain]]

\* lines 96-98 and 175
parse_created_at(created_at, now) ==
    IF created_at.py = "str" THEN fromisoformat(created_at)
    ELSE IF IsSet(created_at) THEN created_at ELSE now

to_dict(self) ==
    [ customer_type |-> self.customer_type,
      intent_stage |-> self.intent_stage,
      is_qualified |-> self.is_qualified,
      rag_questions_count |-> self.rag_questions_count,
      pending_phone |-> self.pending_phone,
      pending_phone_confirmation |-> self.pending_phone_confirmation,
      country_code |-> self.country_code,
      current_field_being_asked |-> self.current_field_being_asked,
      current_field_ask_count |-> self.current_field_ask_count,
      skipped_preferred_count |-> self.skipped_preferred_count,
      phone_validation_attempts |-> self.phone_validation_attempts,
      phone_needs_manual_review |-> self.phone_needs_manual_review,
      email_validation_attempts |-> self.email_validation_attempts,
      email_typo_suggested |-> self.email_typo_suggested,
      email_preference_indicated |-> self.email_preference_indicated,
      phone_preference_indicated |-> self.phone_preference_indicated,
      contact_refusal_count |-> self.contact_refusal_count,
      last_refused_field |-> self.last_refused_field,
      refusal_timestamps |-> [i \in DOMAIN self.refusal_timestamps |-> isoformat(self.refusal_timestamps[i])],
      human_connection_confirmed |-> self.human_connection_confirmed,
      human_connection_flow_stage |-> self.human_connection_flow_stage,
      last_bot_offer |-> self.last_bot_offer,
      discussed_topics |-> topics_to_dict(self.discussed_topics),
      user_uncertainties |-> self.user_uncertainties,
      user_engagement_level |-> self.user_engagement_level,
      brief_response_count |-> self.brief_response_count,
      recent_phrases |-> self.recent_phrases,
      timeline |-> self.timeline,
      coffee_style |-> self.coffee_style,
      equipment |-> self.equipment,
      volume |-> self.volume,
      current_pain_points |-> self.current_pain_points,
      cafe_count |-> self.cafe_count,
      support_needs |-> self.support_needs,
      current_coffee_style |-> self.current_coffee_style,
      coffee_preference |-> self.coffee_preference,
      name |-> self.name,
      phone |-> self.phone,
      email |-> self.email,
      wants_to_place_order |-> self.wants_to_place_order,
      order_details |-> self.order_details,
      rag_question_topics |-> self.rag_question_topics,
      created_at |-> IF IsSet(self.created_at) THEN isoformat(self.created_at) ELSE NoDatetime ]

\* now: the clock read when the dictionary carries no created_at
from_dict(data, now) ==
    [ customer_type |-> dict_get(data, "customer_type", NoneV),
      intent_stage |-> dict_get(data, "intent_stage", "exploring"),
      is_qualified |-> dict_get(data, "is_qualified", FALSE),
      rag_questions_count |-> dict_get(data, "rag_questions_count", 0),
      pending_phone |-> dict_get(data, "pending_phone", NoneV),
      pending_phone_confirmation |-> dict_get(data, "pending_phone_confirmation", NoneV),
      country_code |-> dict_get(data, "country_code", "US"),
      current_field_being_asked |-> dict_get(data, "current_field_being_asked", NoneV),
      current_field_ask_count |-> dict_get(data, "current_field_ask_count", 0),
      skipped_preferred_count |-> dict_get(data, "skipped_preferred_count", 0),
      phone_validation_attempts |-> dict_get(data, "phone_validation_attempts", 0),
      phone_needs_manual_review |-> dict_get(data, "phone_needs_manual_review", FALSE),
      email_validation_attempts |-> dict_get(data, "email_validation_attempts", 0),
      email_typo_suggested |-> dict_get(data, "email_typo_suggested", NoneV),
      email_preference_indicated |-> dict_get(data, "email_preference_indicated", FALSE),
      phone_preference_indicated |-> dict_get(data, "phone_preference_indicated", FALSE),
      contact_refusal_count |-> dict_get(data, "contact_refusal_count", 0),
      last_refused_field |-> dict_get(data, "last_refused_field", NoneV),
      refusal_timestamps |-> parse_timestamps(dict_get(data, "refusal_timestamps", <<>>)),
      human_connection_confirmed |-> dict_get(data, "human_connection_confirmed", FALSE),
      human_connection_flow_stage |-> dict_get(data, "human_connection_flow_stage", NoneV),
      last_bot_offer |-> dict_get(data, "last_bot_offer", NoneV),
      discussed_topics |-> topics_from_dict(dict_get(data, "discussed_topics", <<>>)),
      user_uncertainties |-> dict_get(data, "user_uncertainties", <<>>),
      user_engagement_level |-> dict_get(data, "user_engagement_level", "high"),
      brief_response_count |-> dict_get(data, "brief_response_count", 0),
      recent_phrases |-> dict_get(data, "recent_phrases", <<>>),
      timeline |-> dict_get(data, "timeline", NoneV),
      coffee_style |-> dict_get(data, "coffee_style", NoneV),
      equipment |-> dict_get(data, "equipment", NoneV),
      volume |-> dict_get(data, "volume", NoneV),
      current_pain_points |-> dict_get(data, "current_pain_points", NoneV),
      cafe_count |-> dict_get(data, "cafe_count", NoneV),
      support_needs |-> dict_get(data, "support_needs", NoneV),
      current_coffee_style |-> dict_get(data, "current_coffee_style", NoneV),
      coffee_preference |-> dict_get(data, "coffee_preference", NoneV),
      name |-> dict_get(data, "name", NoneV),
      phone |-> dict_get(data, "phone", NoneV),
      email |-> dict_get(data, "email", NoneV),
      wants_to_place_order |-> dict_get(data, "wants_to_place_order", FALSE),
      order_details |-> dict_get(data, "order_details", NoneV),
      rag_question_topics |-> dict_get(data, "rag_question_topics", <<>>),
      created_at |-> parse_created_at(dict_get(data, "created_at", NoDatetime), now) ]

\* conversation["data"] of a conversation that has stored nothing yet
EmptyData == <<>>

TopicsDiscussed == {"timeline"}

TopicValues == {"3 months", "unclear"}

CountryCodes == {"US", "GB", NoneV}

\* TrackingMixin.track_contact_refusal with the clock reading now
track_contact_refusal_at(s, field, now) ==
    [s EXCEPT !.contact_refusal_count = @ + 1,
              !.last_refused_field = field,
              !.refusal_timestamps = Append(@, now)]

mark_topic_discussed(s, topic, value, now) ==
    [s EXCEPT !.discussed_topics =
        [t \in DOMAIN @ \cup {topic} |->
            IF t = topic
            THEN [value |-> value, timestamp |-> now,
                  was_uncertain |-> value \in {"unclear", TO_BE_DISCUSSED, NoneV}]
            ELSE @[t]]]

RoundTripInit ==
    /\ state \in {from_dict(EmptyData, now) : now \in {d \in Datetimes : d.second = 0}}
    /\ history = NoHistory
    /\ result = NoRet
    /\ script = 0
    /\ inflight = NoRequests

Refuse ==
    /\ Len(state.refusal_timestamps) < MaxStamps
    /\ \E field \in {"phone", "email"}, now \in Datetimes :
           state' = track_contact_refusal_at(state, field, now)
    /\ result' = NoRet
    /\ UNCHANGED <<history, script, inflight>>

Discuss ==
    /\ \E topic \in TopicsDiscussed, value \in TopicValues, now \in Datetimes :
           state' = mark_topic_discussed(state, topic, value, now)
    /\ result' = NoRet
    /\ UNCHANGED <<history, script, inflight>>

SetCountry ==
    /\ \E country \in CountryCodes : state' = [state EXCEPT !.country_code = country]
    /\ result' = NoRet
    /\ UNCHANGED <<history, script, inflight>>

SetStage ==
    /\ \E stage \in {NoneV, "awaiting_phone"} :
           state' = [state EXCEPT !.human_connection_flow_stage = stage]
    /\ result' = NoRet
    /\ UNCHANGED <<history, script, inflight>>

\* the state is stored as its dictionary and the next turn loads it
StoreAndLoad ==
    /\ \E now \in Datetimes : state' = from_dict(to_dict(state), now)
    /\ result' = [kind |-> "loaded"]
    /\ UNCHANGED <<history, script, inflight>>

RoundTripNext == Refuse \/ Discuss \/ SetCountry \/ SetStage \/ StoreAndLoad

SpecRoundTrip == RoundTripInit /\ [][RoundTripNext]_vars

\* C31: for every reachable ConversationState s, from_dict(s.to_dict()) is
\* equal to s in every field, the sub-flow stage, the refusal timestamps, the
\* discussed topics and the country code included, whatever the clock shows
\* when the state is loaded.
C31_RoundTrip == \A now \in Datetimes : from_dict(to_dict(state), now) = state

\* a state loaded from its dictionary that holds a refusal timestamp off the
\* second, a discussed topic, a sub-flow stage and no country code
C31_Witness ==
    /\ result.kind = "loaded"
    /\ \E i \in DOMAIN state.refusal_timestamps : state.refusal_timestamps[i].microsecond # 0
    /\ \E i \in DOMAIN state.refusal_timestamps : state.refusal_timestamps[i].microsecond = 0
    /\ "timeline" \in DOMAIN state.discussed_topics
    /\ state.human_connection_flow_stage = "awaiting_phone"
    /\ state.country_code = NoneV

(***************************************************************************)
(* SpecInbound: InboundBot.process_message, the customer-support bot, and  *)
(* the inbound route of chat.py.  Here state is the stored                 *)
(* InboundConversationState, history what later turns read of the stored   *)
(* messages (how many there are, and which words the last bot message      *)
(* holds), result whether the turn closed the conversation.  The results   *)
(* of the LLM calls (problem intent, issue extraction, ticket              *)
(* classification, the two YES/NO classifiers, the final reply) and of the *)
(* retriever are inputs of the turn; the final reply is known by the       *)
(* instructions it was generated under and by the words it holds.          *)
(***************************************************************************)
\* should_ask_clarifying_question stops at this many questions
MAX_CLARIFYING == 3
\* stored messages that are counted apart (the code compares the count with 4)
MaxStored == 6

SUMMARY_GRINDER == "grinder is broken"
SUMMARY_TASTE == "coffee tastes weak"
SUMMARY_BOTH == "grinder is broken; coffee tastes weak"
RAW_DETAILS == "details as given"

InboundStateFields ==
    [ issue_summary |-> NoneV,
      issue_details |-> NoneV,
      issue_category |-> NoneV,
      create_ticket |-> FALSE,
      ticket_confirmation_pending |-> FALSE,
      ticket_declined |-> FALSE,
      ticket_mentioned |-> FALSE,
      conversation_closed |-> FALSE,
      questions_asked |-> 0 ]

mark_ticket_pending(s) == [s EXCEPT !.ticket_confirmation_pending = TRUE]

confirm_ticket(s) ==
    [s EXCEPT !.create_ticket = TRUE, !.ticket_confirmation_pending = FALSE, !.ticket_declined = FALSE]

decline_ticket(s) ==
    [s EXCEPT !.create_ticket = FALSE, !.ticket_confirmation_pending = FALSE, !.ticket_declined = TRUE]

increment_questions(s) == [s EXCEPT !.questions_asked = @ + 1]

\* summaries are told apart by the scenario words they hold
JoinSummaries(summary, new_summary) ==
    IF summary = SUMMARY_GRINDER /\ new_summary = SUMMARY_TASTE THEN SUMMARY_BOTH ELSE summary

add_additional_issue(s, summary) ==
    [s EXCEPT !.issue_summary = JoinSummaries(@, summary), !.issue_details = RAW_DETAILS]

\* an extracted issue: nothing, or what extract_issue_with_llm returns for the message
NoIssue == [found |-> FALSE]

Issue(summary, category, urgency, additional) ==
    [found |-> TRUE, issue_summary |-> summary, issue_details |-> RAW_DETAILS,
     issue_category |-> category, urgency |-> urgency, additional_issue |-> additional]

\* a user message: its text, the phrase tests of process_message that it
\* passes, and the issue an extraction reads in it
IU(text, f, issue) == [text |-> text, f |-> f, issue |-> issue]

InboundUtterances ==
    { IU("Thanks", {"ending_phrase", "three_words"}, NoIssue),
      IU("Ok", {"three_words"}, NoIssue),
      IU("bye", {"goodbye", "three_words"}, NoIssue),
      IU("no", {"negative", "three_words"}, NoIssue),
      IU("My grinder is broken", {}, Issue(SUMMARY_GRINDER, "equipment", NoneV, FALSE)),
      IU("The coffee tastes weak", {}, Issue(SUMMARY_TASTE, "quality", NoneV, FALSE)),
      IU("It stopped working this morning", {}, Issue(SUMMARY_GRINDER, "equipment", NoneV, FALSE)),
      IU("Also the coffee tastes weak", {}, Issue(SUMMARY_TASTE, "quality", NoneV, TRUE)),
      IU("Yes, create a support case please", {}, NoIssue),
      IU("what blends do you have?", {"question"}, NoIssue) }

\* words of a bot message that later code looks for
BotWords == {"asks_information", "suggests_steps", "question_mark", "asks_fact",
             "ticket_will_be_created", "would_you_like_ticket"}

NoBotMessage == {}

\* SCENARIO 1, 2, 5, 6 by the words of the summary, 4 with the category too
InScenario(s) == s.issue_summary \in {SUMMARY_TASTE, SUMMARY_BOTH}

\* lines 64-71: a short acknowledgment once a ticket was mentioned or is to be created
is_acknowledging(s, m) ==
    /\ "ending_phrase" \in m.f /\ "three_words" \in m.f
    /\ (s.ticket_mentioned \/ s.create_ticket)

IReply(s, response, instructions, words, should_close) ==
    [s |-> s, r |-> [kind |-> "reply", response |-> response, instructions |-> instructions,
                     words |-> words, should_close |-> should_close]]

\* lines 180-222: the extracted issue is written to the state
store_issue(s, x) ==
    IF ~x.found THEN s
    ELSE IF x.additional_issue /\ Truthy(s.issue_summary)
    THEN [add_additional_issue(s, x.issue_summary) EXCEPT !.issue_category = x.issue_category]
    ELSE [s EXCEPT !.issue_summary = IF Truthy(@) THEN @ ELSE x.issue_summary,
                   !.issue_details = x.issue_details,
                   !.issue_category = x.issue_category]

\* lines 224-239: an answer to what the bot asked is added to the details
store_fallback(s, in, last_bot) ==
    IF ~in.has_problem /\ Truthy(s.issue_summary) /\ last_bot # NoBotMessage /\ "asks_fact" \in last_bot
    THEN [s EXCEPT !.issue_details = RAW_DETAILS]
    ELSE s

\* lines 241-271
classify_ticket_response(s, in) ==
    IF ~s.ticket_confirmation_pending THEN s
    ELSE IF in.classification = "CONFIRMING"
    THEN [confirm_ticket(s) EXCEPT !.ticket_mentioned = TRUE]
    ELSE IF in.classification = "DECLINING"
    THEN IF in.new_topic THEN [decline_ticket(s) EXCEPT !.ticket_declined = FALSE] ELSE decline_ticket(s)
    ELSE s

is_urgent_delivery(x) == x.found /\ x.urgency = "critical" /\ x.issue_category \in {"delivery", "order"}

\* lines 283-296
should_clarify(s, in, last_bot) ==
    /\ Truthy(s.issue_summary) /\ Truthy(s.issue_details)
    /\ (in.has_problem \/ "question_mark" \in last_bot)
    /\ s.questions_asked < MAX_CLARIFYING
    /\ in.details_vague

\* lines 303-338: the greeting of a first message, the knowledge-base context of a question
rag_instructions(s, in, stored) ==
    (IF stored = 0 /\ "greeting" \in in.m.f /\ "three_words" \in in.m.f THEN {"greet_by_name"} ELSE {}) \cup
    IF "question" \in in.m.f /\ in.docs_found
    THEN {"knowledge_base"} \cup
         (IF "out_of_scope" \in in.m.f /\ ~in.has_problem /\ ~Truthy(s.issue_summary)
          THEN {"out_of_scope_redirect"}
          ELSE IF ~in.has_problem /\ Truthy(s.issue_summary) THEN {"topic_switch_back_to_issue"}
          ELSE IF ~in.has_problem THEN {"general_query"} ELSE {})
    ELSE {}

\* lines 340-391: what is said about the issue tracked so far
issue_instructions(s, in) ==
    IF ~Truthy(s.issue_summary) THEN {}
    ELSE {"issue_identified"} \cup
         (IF InScenario(s)
          THEN IF ~s.ticket_mentioned /\ s.questions_asked < 2 THEN {"scenario_guidance_offer_case_once"}
               ELSE IF s.ticket_mentioned THEN {"scenario_case_created_team_will_follow_up"}
               ELSE {}
          ELSE IF s.ticket_mentioned THEN {"issue_already_discussed"}
          ELSE IF Truthy(s.issue_details) /\ in.details_long THEN {"provide_help"}
          ELSE {"gather_more_info"})

\* lines 393-515: the first request of the chain that applies; s0 is the
\* state the earlier steps left, complete the value of conversation_complete
special_request(s0, in, last_bot, complete) ==
    LET mentioning == [s0 EXCEPT !.create_ticket = TRUE, !.ticket_mentioned = TRUE]
    IN  IF is_urgent_delivery(IF in.has_problem THEN in.m.issue ELSE NoIssue)
        THEN [s |-> mentioning, i |-> {"urgent_delivery_escalate"}]
        ELSE IF "wants_human" \in in.m.f
        THEN [s |-> mentioning, i |-> {"human_escalation_case_created"}]
        ELSE IF "wants_solution" \in in.m.f /\ Truthy(s0.issue_summary)
        THEN [s |-> [s0 EXCEPT !.create_ticket = TRUE], i |-> {"immediate_solution_priority_case"}]
        ELSE IF "suggests_steps" \in last_bot
        THEN IF in.declines_steps
             THEN IF ~s0.ticket_mentioned
                  THEN [s |-> mentioning, i |-> {"troubleshooting_declined_offer_case"}]
                  ELSE [s |-> s0, i |-> {"troubleshooting_declined_team_will_handle"}]
             ELSE [s |-> s0, i |-> {}]
        ELSE IF "asks_information" \in last_bot /\ in.refuses_details
        THEN IF ~s0.ticket_mentioned
             THEN [s |-> mentioning, i |-> {"refuses_details_case_created"}]
             ELSE [s |-> s0, i |-> {"refuses_details_team_will_contact"}]
        ELSE IF "frustrated" \in in.m.f
        THEN IF Truthy(s0.issue_summary)
             THEN [s |-> [s0 EXCEPT !.create_ticket = TRUE], i |-> {"frustrated_escalate"}]
             ELSE [s |-> s0, i |-> {"frustrated_ask_what_happened"}]
        ELSE IF complete
        THEN [s |-> s0, i |-> {"brief_acknowledgment_only"}]
        ELSE IF "negative" \in in.m.f
        THEN [s |-> s0, i |-> IF s0.ticket_mentioned THEN {"negative_team_will_contact"}
                                ELSE {"negative_offer_case"}]
        ELSE IF s0.create_ticket /\ ~s0.ticket_mentioned
        THEN [s |-> [s0 EXCEPT !.ticket_mentioned = TRUE], i |-> {"case_confirmation_team_will_follow_up"}]
        ELSE IF s0.ticket_declined
        THEN [s |-> s0, i |-> {"ticket_declined_what_else"}]
        ELSE IF ~in.has_problem /\ Truthy(s0.issue_summary) /\ ~s0.ticket_mentioned
                /\ ~s0.ticket_confirmation_pending /\ ~s0.ticket_declined
        THEN [s |-> s0, i |-> {"done_troubleshooting_offer_case"}]
        ELSE IF s0.ticket_mentioned /\ ~(in.has_problem /\ in.m.issue.found)
        THEN [s |-> s0, i |-> {"already_told_brief_response"}]
        ELSE [s |-> s0, i |-> {}]

\* lines 517-522, on the state the chain left
clarifying_instructions(s, clarify) ==
    IF clarify THEN {"ask_clarifying_question"}
    ELSE IF Truthy(s.issue_summary) /\ Truthy(s.issue_details) /\ ~s.ticket_confirmation_pending
            /\ ~s.ticket_mentioned /\ ~s.create_ticket /\ ~s.ticket_declined
    THEN {"enough_information_offer_case"}
    ELSE {}

\* lines 524-536: the style instruction closes a context that is not empty
style_instructions(s, in, context) ==
    IF context = {} THEN {}
    ELSE IF "out_of_scope" \in in.m.f /\ "question" \in in.m.f /\ ~in.has_problem /\ ~Truthy(s.issue_summary)
    THEN {"override_out_of_scope"}
    ELSE IF "question" \in in.m.f /\ ~in.has_problem /\ ~Truthy(s.issue_summary)
    THEN {"override_general_question"}
    ELSE IF in.has_problem \/ Truthy(s.issue_summary)
    THEN {"problem_response_start_with_question"}
    ELSE {"tone_concise"}

\* lines 538-540
history_instructions(s, stored) ==
    IF Truthy(s.issue_summary) /\ stored > 4 THEN {"conversation_context_no_repeat"} ELSE {}

\* lines 576-588: what the words of the reply do to the ticket flags
after_reply(s, words) ==
    IF "ticket_will_be_created" \in words
    THEN LET s1 == [s EXCEPT !.ticket_mentioned = TRUE]
         IN  IF s1.ticket_confirmation_pending THEN confirm_ticket(s1) ELSE s1
    ELSE IF "would_you_like_ticket" \in words /\ ~s.ticket_confirmation_pending
    THEN mark_ticket_pending(s)
    ELSE s

\* InboundBot.process_message; h is the stored history the route passes
inbound_process_message(s, in, h) ==
    IF "goodbye" \in in.m.f
    THEN IReply(s, "farewell", {}, NoBotMessage, TRUE)
    ELSE IF is_acknowledging(s, in.m)
    THEN IReply(s, "youre_welcome_have_a_great_day", {}, NoBotMessage, TRUE)
    ELSE IF "asks_account" \in in.m.f
    THEN IReply(s, "account_information", {}, NoBotMessage, FALSE)
    ELSE
    LET last_bot == h.last_bot
        x == IF in.has_problem THEN in.m.issue ELSE NoIssue
        s1 == store_issue(s, x)
        s2 == store_fallback(s1, in, last_bot)
        s3 == classify_ticket_response(s2, in)
        complete == ~in.has_problem /\ (s3.ticket_mentioned \/ s3.conversation_closed)
        clarify == should_clarify(s3, in, last_bot)
        s4 == IF clarify THEN increment_questions(s3) ELSE s3
        before == rag_instructions(s4, in, h.stored) \cup issue_instructions(s4, in)
        special == special_request(s4, in, last_bot, complete)
        s5 == special.s
        context == before \cup special.i \cup clarifying_instructions(s5, clarify)
        instructions == context \cup style_instructions(s5, in, context)
                            \cup history_instructions(s5, h.stored)
    IN  IReply(after_reply(s5, in.reply_words), "generated", instructions, in.reply_words, FALSE)

\* replies the final call is taken to produce, by the words later code looks for
ReplyWords ==
    { {}, {"question_mark"}, {"suggests_steps", "question_mark"}, {"asks_information", "question_mark"},
      {"asks_fact", "question_mark"}, {"would_you_like_ticket", "question_mark"},
      {"ticket_will_be_created"} }

\* the inputs of one inbound turn: classifiers are asked only where the code asks them
InboundInputs(s, h) ==
    { in \in [ m : InboundUtterances, has_problem : BOOLEAN, classification : {"CONFIRMING", "DECLINING", "UNCLEAR"},
               new_topic : BOOLEAN, refuses_details : BOOLEAN, declines_steps : BOOLEAN,
               details_vague : BOOLEAN, details_long : BOOLEAN, docs_found : BOOLEAN,
               reply_words : ReplyWords ] :
        /\ in.has_problem = in.m.issue.found
        /\ (in.classification # "UNCLEAR" =>
                s.ticket_confirmation_pending /\ in.m.text \in {"Yes, create a support case please", "Ok", "no"})
        /\ (in.classification = "CONFIRMING" => in.m.text \in {"Yes, create a support case please", "Ok"})
        /\ (in.classification = "DECLINING" => in.m.text = "no")
        /\ ~in.new_topic
        /\ (in.refuses_details => "asks_information" \in h.last_bot /\ in.m.text = "no")
        /\ (in.declines_steps => "suggests_steps" \in h.last_bot /\ in.m.text = "no")
        /\ (in.docs_found <=> "question" \in in.m.f)
        /\ ("ticket_will_be_created" \in in.reply_words => s.ticket_confirmation_pending \/ s.create_ticket)
        /\ ("would_you_like_ticket" \in in.reply_words => Truthy(s.issue_summary) \/ in.has_problem) }

InboundNoHistory == [stored |-> 0, last_bot |-> NoBotMessage]

InboundInit ==
    /\ state = InboundStateFields
    /\ history = InboundNoHistory
    /\ result = NoRet
    /\ script = 0
    /\ inflight = NoRequests

\* inbound_chat: the turn on the ongoing conversation; the data and both
\* messages are stored, and the conversation is closed when the bot says so
InboundTurn ==
    /\ ~(result.kind = "reply" /\ result.should_close)
    /\ \E in \in InboundInputs(state, history) :
          LET out == inbound_process_message(state, in, history)
          IN  /\ state' = out.s
              /\ history' = [stored |-> IF history.stored + 2 > MaxStored THEN MaxStored ELSE history.stored + 2,
                             last_bot |-> out.r.words]
              /\ result' = [kind |-> "reply", should_close |-> out.r.should_close]
    /\ UNCHANGED <<script, inflight>>

\* inbound_chat finds no ongoing conversation and creates one
InboundOpen ==
    /\ result.kind = "reply" /\ result.should_close
    /\ state' = InboundStateFields
    /\ history' = InboundNoHistory
    /\ result' = NoRet
    /\ UNCHANGED <<script, inflight>>

InboundNext == InboundTurn \/ InboundOpen

SpecInbound == InboundInit /\ [][InboundNext]_vars

ShortAcknowledgments == {"Thanks", "Ok"}

\* the case was confirmed: it is to be created and the customer was told
CaseConfirmed(s) == s.create_ticket /\ s.ticket_mentioned

\* instructions that make the reply speak of the case or of the team's
\* follow-up, or offer a case
CaseInstructions ==
    {"scenario_guidance_offer_case_once", "scenario_case_created_team_will_follow_up",
     "urgent_delivery_escalate", "human_escalation_case_created", "immediate_solution_priority_case",
     "troubleshooting_declined_offer_case", "troubleshooting_declined_team_will_handle",
     "refuses_details_case_created", "refuses_details_team_will_contact", "frustrated_escalate",
     "negative_team_will_contact", "negative_offer_case", "case_confirmation_team_will_follow_up",
     "done_troubleshooting_offer_case", "enough_information_offer_case"}

BriefInstructions == {"brief_acknowledgment_only", "already_told_brief_response"}

BriefWithoutCase(out) ==
    \/ out.r.response = "youre_welcome_have_a_great_day"
    \/ /\ out.r.response = "generated"
       /\ out.r.instructions \cap BriefInstructions # {}
       /\ out.r.instructions \cap CaseInstructions = {}

\* C32: once a support case has been confirmed, every later short
\* acknowledgment ("Thanks", "Ok") gets a brief reply that neither mentions
\* nor re-offers the case: the fixed closing reply, or a reply generated
\* under the brief-acknowledgment instruction and under no instruction that
\* speaks of the case.
C32_AcknowledgmentStaysBrief ==
    \A in \in InboundInputs(state, history) :
        (CaseConfirmed(state) /\ in.m.text \in ShortAcknowledgments)
            => BriefWithoutCase(inbound_process_message(state, in, history))

(***************************************************************************)
(* SpecValidation: PhoneValidator.validate_and_format_phone as the          *)
(* extraction pipeline calls it, on a phone value, the conversation's      *)
(* country code and the user message.  Here state is the input of the      *)
(* call and result what it returned.  What the phonenumbers library says   *)
(* of a parsed number (is_valid_number, region_code_for_number) is an      *)
(* input too.                                                              *)
(***************************************************************************)
\* a phone value as extracted: its text, whether it starts with "+", the
\* calling code it then carries, how many digits it has, the national digits
PhoneValue(text, plus, calling, ndigits, national) ==
    [text |-> text, plus |-> plus, calling |-> calling, ndigits |-> ndigits, national |-> national]

PhoneValues ==
    { PhoneValue("5551234567", FALSE, NoneV, 10, "5551234567"),
      PhoneValue("555-123-4567", FALSE, NoneV, 10, "5551234567"),
      PhoneValue("123-4567", FALSE, NoneV, 7, "1234567"),
      PhoneValue("636737", FALSE, NoneV, 6, "636737"),
      PhoneValue("+44 7911 123456", TRUE, "+44", 12, "7911123456") }

\* the words around the number: the first country name of country_mapping
\* found in them as a substring, and whether the user named a country
MessageAround(text, names, explicit) == [text |-> text, names |-> names, explicit |-> explicit]

MessagesAround ==
    { MessageAround("<number>", NoneV, FALSE),
      MessageAround("my number is <number>", NoneV, FALSE),
      MessageAround("you can call me on <number>", "CA", FALSE),
      MessageAround("my uk number is <number>", "GB", TRUE) }

CallingCode(country) == IF country = "GB" THEN "+44" ELSE "+1"

\* region_code_for_number of a parsed number
RegionOf(calling, lib) == IF calling = "+44" THEN "GB" ELSE lib.nanp_region

\* lines 422-531: a country name in the text, else a "+" calling code
extract_country_from_text(message, phone) ==
    IF message.names # NoneV THEN message.names
    ELSE IF phone.plus THEN (IF phone.calling = "+44" THEN "GB" ELSE "US")
    ELSE NoneV

\* lines 536-550: a number without "+" does not parse without a region, and
\* its digits name no country
detect_country_from_phone(phone, lib) ==
    IF phone.plus /\ lib.is_valid THEN RegionOf(phone.calling, lib) ELSE NoneV

NotValid == [is_valid |-> FALSE, formatted |-> NoneV, country |-> NoneV]

\* validate_phone accepting ten digits under any default country
validate_phone_lenient_everywhere(phone, default_country, lib) ==
    LET p == IF phone.ndigits = 7 THEN [phone EXCEPT !.national = "555" \o @, !.ndigits = 10] ELSE phone
    IN  IF ~p.plus /\ p.ndigits = 10
        THEN [is_valid |-> TRUE, formatted |-> "+1" \o p.national, country |-> "US"]
        ELSE IF ~lib.is_valid THEN NotValid
        ELSE [is_valid |-> TRUE,
              formatted |-> (IF p.plus THEN p.calling ELSE CallingCode(default_country)) \o p.national,
              country |-> RegionOf(IF p.plus THEN p.calling ELSE CallingCode(default_country), lib)]

\* utils/validators.py validate_phone
validate_phone(phone, default_country, lib) ==
    LET p == IF phone.ndigits = 7 THEN [phone EXCEPT !.national = "555" \o @, !.ndigits = 10] ELSE phone
    IN  IF default_country = "US" /\ ~p.plus /\ p.ndigits = 10
        THEN [is_valid |-> TRUE, formatted |-> "+1" \o p.national, country |-> "US"]
        ELSE IF ~lib.is_valid THEN NotValid
        ELSE [is_valid |-> TRUE,
              formatted |-> (IF p.plus THEN p.calling ELSE CallingCode(default_country)) \o p.national,
              country |-> RegionOf(IF p.plus THEN p.calling ELSE CallingCode(default_country), lib)]

\* PhoneValidator.validate_and_format_phone(phone, country, user_message)
validate_and_format_phone_in(phone, country, user_message, lib) ==
    LET named == extract_country_from_text(user_message, phone)
        detected_country == IF named # NoneV THEN named ELSE detect_country_from_phone(phone, lib)
        country_to_use == IF detected_country # NoneV THEN detected_country
                          ELSE IF Truthy(country) THEN country ELSE "US"
        v == validate_phone(phone, country_to_use, lib)
    IN  [kind |-> "validated", success |-> v.is_valid, formatted_phone |-> v.formatted, country |-> v.country]

ValidationInputs ==
    [ phone : PhoneValues, user_message : MessagesAround, country_code : {"US", "GB", NoneV},
      lib : [is_valid : BOOLEAN, nanp_region : {"US", "CA"}] ]

ValidationInit ==
    /\ state \in ValidationInputs
    /\ history = NoHistory
    /\ result = NoRet
    /\ script = 0
    /\ inflight = NoRequests

\* extraction_pipeline.py line 219
ValidatePhone ==
    /\ result = NoRet
    /\ result' = validate_and_format_phone_in(state.phone, state.country_code, state.user_message, state.lib)
    /\ UNCHANGED <<state, history, script, inflight>>

\* the next value to validate
NextPhone ==
    /\ result # NoRet
    /\ state' \in ValidationInputs
    /\ result' = NoRet
    /\ UNCHANGED <<history, script, inflight>>

ValidationNext == ValidatePhone \/ NextPhone

SpecValidation == ValidationInit /\ [][ValidationNext]_vars

\* ten digits, no "+", no country named by the user, and no country other
\* than the default kept for the conversation
TenDigitsNoMarker(in) ==
    /\ in.phone.ndigits = 10 /\ ~in.phone.plus
    /\ ~in.user_message.explicit
    /\ in.country_code \in {"US", NoneV}

DefaultsToUS(in, r) ==
    r.success /\ r.country = "US" /\ r.formatted_phone = "+1" \o in.phone.national

\* C33: for every 10-digit phone input without an explicit country marker,
\* phone validation succeeds with country "US" and returns "+1" followed by
\* the ten digits.
C33_TenDigitsDefaultToUS ==
    (result.kind = "validated" /\ TenDigitsNoMarker(state)) => DefaultsToUS(state, result)

\* the flow detector reports a refusal while one channel already holds
\* "user_declined" and the other holds no value: after this turn both are refused
BothChannelsThenRefused(s, in) ==
    /\ in.flow = "refuses_contact_info"
    /\ InQualification(s)
    /\ \/ s.phone = USER_DECLINED /\ ~Truthy(s.email)
       \/ s.email = USER_DECLINED /\ ~Truthy(s.phone)

OffersExploration(out) ==
    (out.r.kind = "reply" /\ out.r.response \in RefusalReplies)
        => /\ out.r.response = "refused_both_offer_exploration"
           /\ out.s.intent_stage = "exploring"

\* C34: when the user refuses contact information and both channels are then
\* refused, the turn resets to exploration and offers free exploration; it
\* neither continues contact collection nor announces a channel to be used.
C34_BothRefusedOffersExploration ==
    \A in \in QualificationInputs(state, history) :
        BothChannelsThenRefused(state, in)
            => OffersExploration(process_message(state, in, history.last_user))

\* C35: in every state persisted at the end of a turn, is_qualified true
\* implies that intent_stage is "qualified".
C35_QualifiedFlagMeansQualifiedStage ==
    state.is_qualified => state.intent_stage = "qualified"

\* the channel a reply says the team will use
AnnouncedChannel(out) ==
    IF out.r.kind # "reply" THEN NoneV
    ELSE IF out.r.response \in {"refused_email_use_phone", "hc_backup_refused_use_phone",
                                "order_email_refused_use_phone"} THEN "phone"
    ELSE IF out.r.response \in {"refused_phone_use_email", "hc_reach_out_at_email"} THEN "email"
    ELSE IF out.r.response = "hc_reach_out_at_contact"
         THEN (IF Truthy(out.s.phone) THEN "phone" ELSE "email")
    ELSE NoneV

RealValue(v) == Truthy(v) /\ v # USER_DECLINED

OutreachThroughRealChannel(out) ==
    AnnouncedChannel(out) # NoneV => RealValue(out.s[AnnouncedChannel(out)])

\* C36: the bot never confirms team outreach through a channel whose stored
\* value is "user_declined": a reply saying the team will use the phone or the
\* e-mail is given only when that channel holds a real value.
C36_NoOutreachThroughDeclinedChannel ==
    \A in \in HumanInputs(state, history) :
        OutreachThroughRealChannel(process_message(state, in, history.last_user))

\* a conversation reset to exploration after its customer type was set
ResetWithType(s) ==
    Truthy(s.customer_type) /\ s.intent_stage = "exploring" /\ ~s.is_qualified

\* a message that states the business intent clearly, answered by a reply
ClearIntent(in) == in.m.intent /\ in.flow = "continuing"

\* C37: after a wants_to_exit reset of a conversation whose customer_type is
\* already set, a later message with clear high-confidence intent moves
\* intent_stage out of "exploring" again.
C37_ResumableAfterExit ==
    \A in \in QualificationInputs(state, history) :
        LET out == process_message(state, in, history.last_user)
        IN  (ResetWithType(state) /\ ClearIntent(in) /\ out.r.kind = "reply")
                => out.s.intent_stage # "exploring"

\* the reply to a turn is the low-engagement simplification offer
OfferReturned(out) == out.r.kind = "reply" /\ out.r.response = "low_engagement_offer"

GivesPhone(in) == \E i \in DOMAIN in.m.ext : in.m.ext[i].k = "phone"

\* the turn after the offer went on to extraction: another reply is given,
\* and a phone number in the message is kept
ProcessedAfterOffer(in, out) ==
    out.r.kind = "reply"
        => /\ ~OfferReturned(out)
           /\ GivesPhone(in) => (Truthy(out.s.phone) \/ Truthy(out.s.pending_phone))

\* C38: after the low-engagement simplification offer has been returned, the
\* user's next reply is processed by extraction and qualification: the same
\* offer is not returned on two consecutive turns, and contact information
\* given in reply to it is not discarded.
C38_OfferNotRepeated ==
    \A in1 \in VagueInputs(state, history) :
        LET out1 == process_message(state, in1, history.last_user)
            h1 == Remember(out1.s, in1.m)
        IN  OfferReturned(out1)
                => \A in2 \in VagueInputs(out1.s, h1) :
                       ProcessedAfterOffer(in2, process_message(out1.s, in2, h1.last_user))

(***************************************************************************)
(* SpecLeaving: a visitor who enters the human-connection sub-flow and     *)
(* from some turn on only refuses.  script is 0 while the visitor answers  *)
(* freely and 1 once they have decided to refuse whatever is asked.  Each  *)
(* turn of the conversation is eventually served.                          *)
(***************************************************************************)
LeavingMessages == Texts({"can i talk to a real person", "phone", "email", "both", "yes",
    "+1 555 123 4567", "my name is sam",
    "i want to open a cafe in 3 months, bold coffee, no equipment, 200 cups a day"})

RefusingMessages == Texts({"no", "i don't want to share my email"})

LeavingAllowed(in) ==
    /\ in.flow \in {"continuing", "wants_to_exit", "refuses_contact_info"}
    /\ in.ext_ok /\ ~in.gen_fails /\ ~in.rag_fails
    /\ in.bot_asked = NoneV
    /\ in.qintent = "none"
    /\ in.type_res \in {NoType, TypeResult("new_cafe", "high", FALSE)}
    /\ in.type_retry = NoType

LeavingInputs(s, h) ==
    {in \in Inputs(s, h, LeavingMessages) : LeavingAllowed(in) /\ in.flow = "continuing"}

RefusingInputs(s, h) == {in \in Inputs(s, h, RefusingMessages) : LeavingAllowed(in)}

AwaitingStages == {"awaiting_method", "awaiting_phone", "awaiting_phone_confirmation",
                   "awaiting_email_backup", "awaiting_email"}

InSubFlow(s) == s.human_connection_flow_stage \in AwaitingStages

\* the visitor still answers what is asked
AnsweringTurn == Conversation(LeavingInputs(state, history))

\* inside the sub-flow the visitor makes up their mind to refuse from here on
StartRefusing ==
    /\ script = 0
    /\ ~Ended
    /\ InSubFlow(state)
    /\ script' = 1
    /\ UNCHANGED <<state, history, result, inflight>>

\* a turn whose message is a refusal or an exit
RefusingTurn ==
    /\ script = 1
    /\ ~Ended
    /\ \E in \in RefusingInputs(state, history) : Deliver(in)
    /\ UNCHANGED <<script, inflight>>

LeavingNext == AnsweringTurn \/ StartRefusing \/ RefusingTurn

SpecLeaving == Init /\ [][LeavingNext]_vars /\ WF_vars(RefusingTurn)

\* C39: from every awaiting stage of the human-connection sub-flow the user
\* can leave without supplying the requested contact: once they only refuse,
\* control eventually returns to the main flow (the sub-flow stage is no
\* longer an awaiting one) instead of the same prompt being repeated forever.
C39_RefusalLeavesSubFlow ==
    [](script = 1 => <>(~InSubFlow(state) \/ Ended))

(***************************************************************************)
(* SpecSession: the chat_conversations collection for one session_id and   *)
(* the requests outbound_chat serves for it.  Here state.docs is the       *)
(* collection; a conversation_id is a position in it.  Every database call *)
(* of lines 23-60 is awaited, so another request can be served between any *)
(* two of them.                                                            *)
(***************************************************************************)
MaxConversations == 3

Conversations(s) == DOMAIN s.docs

Ongoing(s) == {c \in Conversations(s) : s.docs[c].status = "ongoing"}

\* closed with ended_at within the last five minutes
RecentlyClosed(s) == {c \in Conversations(s) : s.docs[c].status = "closed" /\ s.docs[c].recent}

NewConversation == [status |-> "ongoing", recent |-> FALSE, messages |-> 0]

At(r, pc) == inflight[r].pc = pc

\* what a request remembers between two awaits
Holding(pc, c) == [pc |-> pc, conversation |-> c]

SessionInit ==
    /\ state = [docs |-> <<>>]
    /\ history = NoHistory
    /\ result = NoRet
    /\ script = 0
    /\ inflight = NoRequests

\* lines 23-26: find_one({session_id, status: "ongoing"})
FindOngoing(r) ==
    /\ At(r, "idle")
    /\ \/ \E c \in Ongoing(state) : inflight' = [inflight EXCEPT ![r] = Holding("found", c)]
       \/ Ongoing(state) = {} /\ inflight' = [inflight EXCEPT ![r] = Holding("none_ongoing", 0)]
    /\ UNCHANGED <<state, history, result, script>>

\* lines 30-37: find_one({session_id, status: "closed", ended_at >= five minutes ago})
FindRecentlyClosed(r) ==
    /\ At(r, "none_ongoing")
    /\ \/ \E c \in RecentlyClosed(state) : inflight' = [inflight EXCEPT ![r] = Holding("reopening", c)]
       \/ RecentlyClosed(state) = {} /\ inflight' = [inflight EXCEPT ![r] = Holding("creating", 0)]
    /\ UNCHANGED <<state, history, result, script>>

\* lines 40-45: update_one({_id}, {$set: {status: "ongoing"}})
Reopen(r) ==
    /\ At(r, "reopening")
    /\ state' = [state EXCEPT !.docs[inflight[r].conversation].status = "ongoing"]
    /\ inflight' = [inflight EXCEPT ![r] = Holding("found", inflight[r].conversation)]
    /\ UNCHANGED <<history, result, script>>

\* lines 47-60: insert_one of a new conversation with status "ongoing"
InsertNew(r) ==
    /\ At(r, "creating")
    /\ Len(state.docs) < MaxConversations
    /\ state' = [state EXCEPT !.docs = Append(@, NewConversation)]
    /\ inflight' = [inflight EXCEPT ![r] = Holding("found", Len(state.docs) + 1)]
    /\ UNCHANGED <<history, result, script>>

\* lines 76-148: process_message returns and update_one({conversation_id})
\* pushes the two messages; should_end also sets status "closed" and ended_at
UpdateConversation(r) ==
    /\ At(r, "found")
    /\ \E should_end \in BOOLEAN :
          /\ state' = [state EXCEPT !.docs[inflight[r].conversation] =
                          [status |-> IF should_end THEN "closed" ELSE @.status,
                           recent |-> IF should_end THEN TRUE ELSE @.recent,
                           messages |-> IF @.messages < 2 THEN @.messages + 1 ELSE 2]]
          /\ result' = [kind |-> "reply", should_end |-> should_end]
    /\ inflight' = [inflight EXCEPT ![r] = Idle]
    /\ UNCHANGED <<history, script>>

\* five minutes pass since a conversation was closed
FiveMinutesPass ==
    /\ \E c \in RecentlyClosed(state) : state' = [state EXCEPT !.docs[c].recent = FALSE]
    /\ UNCHANGED <<history, result, script, inflight>>

SessionNext ==
    \/ \E r \in Requests :
          FindOngoing(r) \/ FindRecentlyClosed(r) \/ Reopen(r) \/ InsertNew(r) \/ UpdateConversation(r)
    \/ FiveMinutesPass

SpecSession == SessionInit /\ [][SessionNext]_vars

\* C40: for a given session_id there is never more than one stored
\* conversation with status "ongoing", even when two messages of a session
\* without a conversation are handled concurrently.
C40_OneOngoingConversation == Cardinality(Ongoing(state)) <= 1
====
